---- MODULE Spec2Model ----
(***************************************************************************)
(* A model of the Manga Upscaler extension (src/extension/content.js and   *)
(* src/extension/background.js).                                           *)
(*                                                                         *)
(* The subsystems share little state in the code (the clock, and           *)
(* lastHostStartAt), so each has its own next-state relation and           *)
(* specification over the common variables:                                *)
(*   SpecCache   the enhanced-preload cache of the content script          *)
(*   SpecChunks  the chunking of a stored stream and its reassembly        *)
(*   SpecStream  the stream store's message protocol                       *)
(*   SpecStreamLife  stream entries from store to removal, timers fair     *)
(*   SpecHost    starting and stopping the local AI host                   *)
(*   SpecEnsure  ensureHostRunning, call after call, handlers fair         *)
(*   SpecCooldown  the failure cooldown of a content script                *)
(*   SpecPreload   the cooldown while a batch of candidates is fetched     *)
(*   SpecCandidates  choosing the preload candidates on a page             *)
(*   SpecCurrent   choosing the panel in view                              *)
(*   SpecItems     the images' state and the calls at work on them         *)
(*   SpecCycles    the cycles and context-menu calls at work on images     *)
(*   SpecBurst     the failure cooldown with auto mode's burst limit       *)
(*   SpecNotices   the cooldown notices of cycles of every origin          *)
(*   SpecRetry     cycles and their retries after a cooldown, timers fair  *)
(*   SpecEnhance   the background script's enhancement request and retry   *)
(*   SpecApply     putting an enhanced image on the page                   *)
(*   SpecListener  the background script's message listener, awaits fair   *)
(*   SpecAwait     the awaits of a cycle, one after the other, timers fair *)
(* Times are milliseconds as read from Date.now(); sizes are bytes.        *)
(***************************************************************************)
EXTENDS Integers, Sequences, FiniteSets, Bags, TLC

VARIABLES
  now,                        \* Date.now() of the content script
  enhancedPreloadCache,       \* content.js:53  the Map, as its entries in insertion order
  enhancedPreloadTotalBytes,  \* content.js:54
  cacheRet,                   \* what the last cache operation returned
  evictLog,                   \* the LRU removals of the last operation, in order
  evictSnaps,                 \* the cache after each eviction pass of the last operation
  keysSeen,                   \* how many distinct keys were ever put (keys are 1..keysSeen)
  cacheOps,                   \* how many cache operations have run
  chunkSize,                  \* background.js:159  AI_STREAM_CHUNK_SIZE, in bytes
  aiStreamStore,              \* background.js:160  the Map id -> entry
  streamTimers,               \* background.js:192  ids whose safety-TTL timer is pending
  nextStreamId,               \* how many stream ids newStreamId() has handed out
  streamResp,                 \* the last response to a stream message
  drain,                      \* content.js:666-696  per stream, the consumer reading it
  deleteSent,                 \* content.js:693  ids the consumer has sent AI_STREAM_DELETE for
  host,                       \* the local AI host process: down, booting, up or stopping
  hostOkUntil,                \* background.js:158
  hostTasks,                  \* the HOST_START / HOST_STOP handlers begun, in order of arrival
  startCmds,                  \* how many 'start' commands went to the native host
  lastHostStartAt,            \* content.js:50, per tab
  hostTicks,                  \* how often time has passed with no handler running
  aiHostDownUntil,            \* content.js:38
  aiHostFailCount,            \* content.js:39
  aiBurstCount,               \* content.js:40
  aiBurstLastAt,              \* content.js:41
  cooldownRetryTimer,         \* content.js:42  0 for null, else the time the timer is due
  cooldownRetryPreload,       \* content.js:43
  cooldownNotifiedUntil,      \* content.js:44
  busy,                       \* content.js:36
  po,                         \* where the processOnce that holds busy stands
  menu,                       \* the ENHANCE_IMAGE_URL handlers under way
  cdLast,                     \* the last thing that happened to an enhancement attempt
  streak,                     \* failed responses since the last successful one or cooldown
  cdTicks,                    \* how often time has passed in the content script
  images,                     \* the page's <img> elements, document.images in document order
  site,                       \* which reader site the page belongs to (location.hostname)
  visibleScores,              \* content.js:48  the Map img -> intersection area, in insertion order
  pageRet,                    \* what the last selection on the page returned
  enabled,                    \* content.js:1263-1264  settings.enabled && hostAllowed()
  dataset,                    \* per image, what the content script keeps in img.dataset
  calls,                      \* the cycle and the ENHANCE_IMAGE_URL handlers at work on images
  stopAsked,                  \* whether HOST_STOP was sent for a settings update
  itLast,                     \* the last thing that happened to an image
  itTicks,                    \* how often a backoff's time has passed
  fetches,                    \* the FETCH_AI_ENHANCE handlers of the background script
  serverUp,                   \* whether the local AI host answers on its port
  settings,                   \* content.js:20  settings.scale and settings.aiQuality
  el,                         \* one <img>: its source, what it shows and its dataset
  ap,                         \* the handler that is putting an enhanced image on el
  apLast,                     \* how the last call that put, or would put, an image ended
  made,                       \* per cache key, what the backend was asked for its blob
  apOps,                      \* how many calls and page events el has seen
  inbox,                      \* the messages the background listener was called with
  cyc,                        \* where a call of processOnce stands among its awaits
  wait                        \* the promise of the waitForImageLoad call it awaits

cacheData == <<enhancedPreloadCache, enhancedPreloadTotalBytes, cacheRet,
               evictLog, evictSnaps, keysSeen, cacheOps>>

cacheVars == <<now, cacheData>>

streamVars == <<chunkSize, aiStreamStore, streamTimers, nextStreamId, streamResp,
                drain, deleteSent>>

hostVars == <<host, hostOkUntil, hostTasks, startCmds, lastHostStartAt, hostTicks>>

vars == <<now, enhancedPreloadCache, enhancedPreloadTotalBytes, cacheRet,
          evictLog, evictSnaps, keysSeen, cacheOps,
          chunkSize, aiStreamStore, streamTimers, nextStreamId, streamResp,
          drain, deleteSent,
          host, hostOkUntil, hostTasks, startCmds, lastHostStartAt, hostTicks,
          aiHostDownUntil, aiHostFailCount, aiBurstCount, aiBurstLastAt,
          cooldownRetryTimer, cooldownRetryPreload, cooldownNotifiedUntil, busy,
          po, menu, cdLast, streak, cdTicks,
          images, site, visibleScores, pageRet,
          enabled, dataset, calls, stopAsked, itLast, itTicks,
          fetches, serverUp,
          settings, el, ap, apLast, made, apOps,
          inbox, cyc, wait>>

cooldownVars == <<aiHostDownUntil, aiHostFailCount, aiBurstCount, aiBurstLastAt,
                  cooldownRetryTimer, cooldownRetryPreload, cooldownNotifiedUntil, busy,
                  po, menu, cdLast, streak, cdTicks>>

pageVars == <<images, site, visibleScores, pageRet>>

itemVars == <<enabled, dataset, calls, stopAsked, itLast, itTicks>>

enhanceVars == <<fetches, serverUp>>

applyVars == <<settings, el, ap, apLast, made, apOps>>

listenerVars == <<inbox>>

awaitVars == <<cyc, wait>>

\* What the actions of each subsystem leave alone.
notCache == <<streamVars, hostVars, cooldownVars, pageVars, itemVars, enhanceVars, applyVars, listenerVars, awaitVars>>

notStream == <<now, cacheData, hostVars, cooldownVars, pageVars, itemVars, enhanceVars,
               applyVars, listenerVars, awaitVars>>

notHost == <<cacheData, streamVars, cooldownVars, pageVars, itemVars, enhanceVars, applyVars, listenerVars, awaitVars>>

notCooldown == <<cacheData, streamVars, host, hostOkUntil, hostTasks, startCmds, hostTicks,
                 pageVars, itemVars, enhanceVars, applyVars, listenerVars, awaitVars>>

notPage == <<now, cacheData, streamVars, hostVars, cooldownVars, itemVars, enhanceVars,
             applyVars, listenerVars, awaitVars>>

\* the item-level actions read aiHostDownUntil and write busy
notItems == <<cacheData, streamVars, hostVars, pageVars,
              aiHostDownUntil, aiHostFailCount, aiBurstCount, aiBurstLastAt,
              cooldownRetryTimer, cooldownRetryPreload, cooldownNotifiedUntil,
              po, menu, cdLast, streak, cdTicks, enhanceVars, applyVars, listenerVars, awaitVars>>

notEnhance == <<now, cacheData, streamVars, hostVars, cooldownVars, pageVars, itemVars,
                applyVars, listenerVars, awaitVars>>

\* putting an image on the page reads the clock and the preload cache
notApply == <<keysSeen, cacheOps, streamVars, hostVars, cooldownVars, pageVars, itemVars,
              enhanceVars, listenerVars, awaitVars>>

\* the listener model keeps to the messages and their responses
notListener == <<now, cacheData, streamVars, hostVars, cooldownVars, pageVars, itemVars,
                 enhanceVars, applyVars, awaitVars>>

\* the awaits of a cycle write busy
notAwait == <<now, cacheData, streamVars, hostVars,
              aiHostDownUntil, aiHostFailCount, aiBurstCount, aiBurstLastAt,
              cooldownRetryTimer, cooldownRetryPreload, cooldownNotifiedUntil,
              po, menu, cdLast, streak, cdTicks,
              pageVars, itemVars, enhanceVars, applyVars, listenerVars>>

-----------------------------------------------------------------------------
(* Bounds of the model *)

\* distinct cache keys (one more than ENHANCED_PRELOAD_MAX_ENTRIES so that the
\* entry bound is exceeded)
MaxKeys == 7
\* how many cache operations (get, put) run
MaxCacheOps == 2

\* the longest buffer stored in SpecChunks
MaxLen == 10
\* the largest chunk size of SpecChunks and SpecStream
MaxChunkSize == 4
\* how many streams are stored in SpecStream
MaxStreams == 1
\* the longest buffer stored in SpecStream
MaxProbeLen == 3

\* how many HOST_START / HOST_STOP messages arrive
MaxHostTasks == 2
\* how many tabs run the content script
MaxTabs == 2
\* how often the health cache's lifetime passes with no handler running
MaxHostTicks == 1

\* how many ENHANCE_IMAGE_URL handlers run at a time
MaxMenuCalls == 1
\* how many preload candidates follow the current item
MaxCandidates == 1
\* how often time passes in the content script
MaxCdTicks == 2
\* how many preload candidates a batch has at most
MaxBatch == 2
\* how many calls and page events the element of the apply model sees
MaxApplyOps == 3
\* how many sources the page gives that element
MaxUrls == 2
\* how often time passes to the retry timer while batches are fetched
MaxBatchTicks == 1

\* how often time passes while the burst limit is watched
MaxBurstTicks == 1

\* how many images a page has
MaxImages == 3
\* how many preload candidates are asked for at most
MaxAsk == 2
\* how many images the observer tracks at a time
MaxTracked == 2

\* how many images carry state of the content script
MaxItems == 2
\* how many ENHANCE_IMAGE_URL handlers work on images at a time
MaxItemCalls == 1
\* how often a backoff's time passes
MaxItemTicks == 1
\* how many FETCH_AI_ENHANCE messages the background script receives
MaxEnhanceMsgs == 2

(* Program constants *)

StartTime == 100000

ENHANCED_PRELOAD_TTL_MS == 2 * 60 * 1000

ENHANCED_PRELOAD_MAX_ENTRIES == 6

ENHANCED_PRELOAD_MAX_BYTES == 140 * 1024 * 1024

MiB == 1024 * 1024

\* blob sizes the backend answers with: tiny, more than half the byte budget,
\* more than the whole byte budget
BlobSizes == {1, 80 * MiB, 150 * MiB}

\* how far Date.now() moves between two operations
TimeSteps == {0, 1, ENHANCED_PRELOAD_TTL_MS}

-----------------------------------------------------------------------------
(* Helpers on sequences *)

RECURSIVE SumBytes(_)
SumBytes(c) ==
  IF c = <<>> THEN 0 ELSE Head(c).byteLength + SumBytes(Tail(c))

KeysOf(c) == {c[i].key : i \in 1..Len(c)}

IndexOfKey(c, k) ==
  IF k \in KeysOf(c) THEN CHOOSE i \in 1..Len(c) : c[i].key = k ELSE 0

RemoveAt(c, i) == SubSeq(c, 1, i - 1) \o SubSeq(c, i + 1, Len(c))

-----------------------------------------------------------------------------
(* The enhanced-preload cache: content.js 841-870, 1074-1088 *)

\* The TTL sweep with its age test left out.
IsExpired_NoAge(v, t) == v.createdAt = 0

\* content.js:844  the test of the TTL sweep
IsExpired(v, t) ==
  v.createdAt = 0 \/ (t - v.createdAt) > ENHANCED_PRELOAD_TTL_MS

\* The capacity loop looking at the entry count only.
OverCapacity_CountOnly(c, total) == Len(c) > ENHANCED_PRELOAD_MAX_ENTRIES

\* content.js:850  the condition of the capacity loop
OverCapacity(c, total) ==
  Len(c) > ENHANCED_PRELOAD_MAX_ENTRIES \/ total > ENHANCED_PRELOAD_MAX_BYTES

\* The scan ordering entries by their creation time (FIFO instead of LRU).
UsedAt_CreatedAt(v) == v.createdAt

\* content.js:854  t = Number(v.lastUsedAt || v.createdAt || 0)
UsedAt(v) ==
  IF v.lastUsedAt # 0 THEN v.lastUsedAt ELSE v.createdAt

\* content.js:851-856  the scan for oldestKey: the first entry, in the Map's
\* insertion order, whose time is strictly below every earlier one; 0 if none
RECURSIVE ScanOldest(_, _, _, _)
ScanOldest(c, i, oldestAt, oldestIdx) ==
  IF i > Len(c) THEN oldestIdx
  ELSE IF oldestIdx = 0 \/ UsedAt(c[i]) < oldestAt
       THEN ScanOldest(c, i + 1, UsedAt(c[i]), i)
       ELSE ScanOldest(c, i + 1, oldestAt, oldestIdx)

OldestIndex(c) == ScanOldest(c, 1, 0, 0)

\* content.js:843-848  the TTL sweep
SweepExpired(c, t) == SelectSeq(c, LAMBDA v : ~IsExpired(v, t))

\* content.js:850-861  the capacity loop; log collects the removals
RECURSIVE EvictLoop(_, _, _)
EvictLoop(c, total, log) ==
  IF ~OverCapacity(c, total) THEN [cache |-> c, total |-> total, log |-> log]
  ELSE LET i == OldestIndex(c) IN
       IF i = 0 THEN [cache |-> c, total |-> total, log |-> log]
       ELSE EvictLoop(RemoveAt(c, i), total - c[i].byteLength,
                      Append(log, [key |-> c[i].key, before |-> c]))

\* content.js:841-862  _evictEnhancedPreloadIfNeeded
EvictEnhancedPreloadIfNeeded(c, total, t) ==
  LET kept == SweepExpired(c, t)
      gone == SelectSeq(c, LAMBDA v : IsExpired(v, t))
  IN  EvictLoop(kept, total - SumBytes(gone), <<>>)

Snap(r) == [count |-> Len(r.cache), bytes |-> SumBytes(r.cache), total |-> r.total]

\* content.js:864-870  getEnhancedPreloadEntry(key), called when Date.now() = t
GetEnhancedPreloadEntry(k, t) ==
  LET r == EvictEnhancedPreloadIfNeeded(enhancedPreloadCache, enhancedPreloadTotalBytes, t)
      i == IndexOfKey(r.cache, k)
      j == IndexOfKey(enhancedPreloadCache, k)
  IN  /\ enhancedPreloadCache' =
           IF i = 0 THEN r.cache
           ELSE [r.cache EXCEPT ![i].lastUsedAt = t]
      /\ enhancedPreloadTotalBytes' = r.total
      /\ cacheRet' = [op |-> "get", key |-> k, found |-> (i # 0),
                      createdAt |-> IF i = 0 THEN 0 ELSE r.cache[i].createdAt,
                      at |-> t,
                      wasExpired |-> (j # 0 /\ IsExpired(enhancedPreloadCache[j], t))]
      /\ evictLog' = r.log
      /\ evictSnaps' = <<Snap(r)>>

\* a put that forgets to take the replaced entry's bytes off the total
PutEnhancedPreloadEntry_KeepsOldBytes(k, size, t) ==
  LET r1 == EvictEnhancedPreloadIfNeeded(enhancedPreloadCache, enhancedPreloadTotalBytes, t)
      i  == IndexOfKey(r1.cache, k)
      entry == [key |-> k, byteLength |-> size, createdAt |-> t, lastUsedAt |-> t]
      c2 == IF i = 0 THEN Append(r1.cache, entry) ELSE [r1.cache EXCEPT ![i] = entry]
      r2 == EvictEnhancedPreloadIfNeeded(c2, r1.total + size, t)
  IN  /\ enhancedPreloadCache' = r2.cache
      /\ enhancedPreloadTotalBytes' = r2.total
      /\ cacheRet' = [op |-> "put", key |-> k, found |-> (i # 0), createdAt |-> t,
                      at |-> t, wasExpired |-> FALSE]
      /\ evictLog' = r1.log \o r2.log
      /\ evictSnaps' = <<Snap(r1), Snap(r2)>>

\* content.js:1074-1088  the tail of preloadAiForImage, after the fetch: the
\* blob of `size` bytes is stored under `k` when Date.now() = t
PutEnhancedPreloadEntry(k, size, t) ==
  LET r1 == EvictEnhancedPreloadIfNeeded(enhancedPreloadCache, enhancedPreloadTotalBytes, t)
      i  == IndexOfKey(r1.cache, k)
      t1 == IF i = 0 THEN r1.total ELSE r1.total - r1.cache[i].byteLength
      entry == [key |-> k, byteLength |-> size, createdAt |-> t, lastUsedAt |-> t]
      c2 == IF i = 0 THEN Append(r1.cache, entry) ELSE [r1.cache EXCEPT ![i] = entry]
      r2 == EvictEnhancedPreloadIfNeeded(c2, t1 + size, t)
  IN  /\ enhancedPreloadCache' = r2.cache
      /\ enhancedPreloadTotalBytes' = r2.total
      /\ cacheRet' = [op |-> "put", key |-> k, found |-> (i # 0), createdAt |-> t,
                      at |-> t, wasExpired |-> FALSE]
      /\ evictLog' = r1.log \o r2.log
      /\ evictSnaps' = <<Snap(r1), Snap(r2)>>

\* A key seen before is read, d milliseconds after the previous operation.
CacheGet ==
  /\ cacheOps < MaxCacheOps
  /\ cacheOps' = cacheOps + 1
  /\ \E d \in TimeSteps :
       /\ now' = now + d
       /\ \E k \in 1..keysSeen : GetEnhancedPreloadEntry(k, now')
  /\ UNCHANGED keysSeen
  /\ UNCHANGED notCache

\* A preload fetch completes for a key seen before ...
CachePutSeen ==
  /\ cacheOps < MaxCacheOps
  /\ cacheOps' = cacheOps + 1
  /\ \E d \in TimeSteps, size \in BlobSizes :
       /\ now' = now + d
       /\ \E k \in 1..keysSeen : PutEnhancedPreloadEntry(k, size, now')
  /\ UNCHANGED keysSeen
  /\ UNCHANGED notCache

\* ... or for a new key; new keys are numbered in the order of their first use.
CachePutNew ==
  /\ cacheOps < MaxCacheOps
  /\ cacheOps' = cacheOps + 1
  /\ keysSeen < MaxKeys
  /\ keysSeen' = keysSeen + 1
  /\ \E d \in TimeSteps, size \in BlobSizes :
       /\ now' = now + d
       /\ PutEnhancedPreloadEntry(keysSeen + 1, size, now')
  /\ UNCHANGED notCache

\* The cache after n one-byte blobs were stored under the keys 1..n, one every
\* millisecond, the last of them a millisecond ago.
Prefilled(n) ==
  [i \in 1..n |-> [key |-> i, byteLength |-> 1,
                   createdAt |-> StartTime - n + i - 1,
                   lastUsedAt |-> StartTime - n + i - 1]]

InitCacheWith(n) ==
  /\ now = StartTime
  /\ enhancedPreloadCache = Prefilled(n)
  /\ enhancedPreloadTotalBytes = n
  /\ cacheRet = [op |-> "none", key |-> 0, found |-> FALSE, createdAt |-> 0,
                 at |-> 0, wasExpired |-> FALSE]
  /\ evictLog = <<>>
  /\ evictSnaps = <<>>
  /\ keysSeen = n
  /\ cacheOps = 0

\* content.js:53-54  the cache of a freshly loaded content script
InitCache == InitCacheWith(0)

\* The cache is empty, or full.
InitCacheAny == \E n \in {0, ENHANCED_PRELOAD_MAX_ENTRIES} : InitCacheWith(n)

NextCache == CacheGet \/ CachePutSeen \/ CachePutNew

-----------------------------------------------------------------------------
(* The binary stream store: background.js 159-194, 463-495, and its consumer,
   content.js 666-696 *)

\* The response body of n bytes; byte i is told apart from every other.
Buf(n) == [i \in 1..n |-> (i * 37) % 256]

Min(a, b) == IF a < b THEN a ELSE b

\* Uint8Array.prototype.slice(a, b) on the buffer u8, 0 <= a
Slice(u8, a, b) == SubSeq(u8, a + 1, Min(b, Len(u8)))

\* splitArrayBuffer leaving a one-byte gap after every chunk.
RECURSIVE SplitFrom_Gap(_, _, _)
SplitFrom_Gap(u8, i, size) ==
  IF i < Len(u8) THEN <<Slice(u8, i, i + size)>> \o SplitFrom_Gap(u8, i + size + 1, size)
  ELSE <<>>

\* background.js:172-174  for (let i = 0; i < u8.length; i += chunkSize) push(slice)
RECURSIVE SplitFrom(_, _, _)
SplitFrom(u8, i, size) ==
  IF i < Len(u8) THEN <<Slice(u8, i, i + size)>> \o SplitFrom(u8, i + size, size)
  ELSE <<>>

\* background.js:169-176  splitArrayBuffer(buffer, chunkSize)
SplitArrayBuffer(buffer, size) == SplitFrom(buffer, 0, size)

\* The base64 alphabet is 0..63; 64 is the padding "=".
RECURSIVE Btoa(_)
Btoa(b) ==
  IF Len(b) = 0 THEN <<>>
  ELSE IF Len(b) = 1 THEN <<b[1] \div 4, (b[1] % 4) * 16, 64, 64>>
  ELSE IF Len(b) = 2 THEN <<b[1] \div 4, (b[1] % 4) * 16 + b[2] \div 16, (b[2] % 16) * 4, 64>>
  ELSE <<b[1] \div 4, (b[1] % 4) * 16 + b[2] \div 16, (b[2] % 16) * 4 + b[3] \div 64, b[3] % 64>>
       \o Btoa(SubSeq(b, 4, Len(b)))

RECURSIVE Atob(_)
Atob(t) ==
  IF Len(t) < 4 THEN <<>>
  ELSE LET b1 == t[1] * 4 + t[2] \div 16
           b2 == (t[2] % 16) * 16 + t[3] \div 4
           b3 == (t[3] % 4) * 64 + t[4]
       IN  (IF t[3] = 64 THEN <<b1>>
            ELSE IF t[4] = 64 THEN <<b1, b2>>
            ELSE <<b1, b2, b3>>) \o Atob(SubSeq(t, 5, Len(t)))

\* background.js:591-599  arrayBufferToBase64
ArrayBufferToBase64(buffer) == Btoa(buffer)

\* content.js:318-325  base64ToArrayBuffer; it throws on an empty payload
Base64ToArrayBuffer(b64) == Atob(b64)

NoResp == [type |-> "none", id |-> 0, index |-> 0, ok |-> TRUE, error |-> "",
           chunk |-> <<>>, b64 |-> <<>>, last |-> FALSE]

ChunkError(type, id, index, error) ==
  [type |-> type, id |-> id, index |-> index, ok |-> FALSE, error |-> error,
   chunk |-> <<>>, b64 |-> <<>>, last |-> FALSE]

\* The handler answering every index within the entry's byteLength.
ChunkReply_NoRangeCheck(store, type, id, index) ==
  IF id \notin DOMAIN store THEN ChunkError(type, id, index, "Unknown stream")
  ELSE IF index < 0 THEN ChunkError(type, id, index, "Invalid chunk index")
  ELSE LET cs == store[id].chunks
           ch == IF index < Len(cs) THEN cs[index + 1] ELSE <<>>
       IN  IF index > store[id].byteLength
           THEN ChunkError(type, id, index, "Chunk not found")
           ELSE [type |-> type, id |-> id, index |-> index, ok |-> TRUE, error |-> "",
                 chunk |-> IF type = "AI_STREAM_CHUNK" THEN ch ELSE <<>>,
                 b64 |-> IF type = "AI_STREAM_CHUNK_B64" THEN ArrayBufferToBase64(ch) ELSE <<>>,
                 last |-> (index = Len(cs) - 1)]

\* background.js:463-488  the answer to AI_STREAM_CHUNK and AI_STREAM_CHUNK_B64;
\* a throw becomes {ok: false, error} at background.js:561-563.  id 0 stands
\* for a missing streamId, '' after String(streamId || '').
ChunkReply(store, type, id, index) ==
  IF id \notin DOMAIN store THEN ChunkError(type, id, index, "Unknown stream")
  ELSE IF index < 0 THEN ChunkError(type, id, index, "Invalid chunk index")
  ELSE LET cs == store[id].chunks IN
       IF index >= Len(cs) THEN ChunkError(type, id, index, "Chunk not found")
       ELSE [type |-> type, id |-> id, index |-> index, ok |-> TRUE, error |-> "",
             chunk |-> IF type = "AI_STREAM_CHUNK" THEN cs[index + 1] ELSE <<>>,
             b64 |-> IF type = "AI_STREAM_CHUNK_B64"
                     THEN ArrayBufferToBase64(cs[index + 1]) ELSE <<>>,
             last |-> (index = Len(cs) - 1)]

Without(f, id) == [x \in DOMAIN f \ {id} |-> f[x]]

With(f, id, v) == [x \in DOMAIN f \cup {id} |-> IF x = id THEN v ELSE f[x]]

NoDrain == [st |-> "none", chunkCount |-> 0, total |-> 0, i |-> 0, phase |-> "bin",
            out |-> <<>>]

\* background.js:178-194  storeAiStream for a response body of len bytes, called
\* by the FETCH_AI_ENHANCE handler (background.js:404-414), and the requester's
\* checks of the response before it reads the stream (content.js:662-674)
StoreAiStream(len, hostError) ==
  LET id == nextStreamId + 1
      chunks == SplitArrayBuffer(Buf(len), chunkSize)
      entry == [chunks |-> chunks, byteLength |-> len]
  IN  /\ nextStreamId' = id
      /\ aiStreamStore' = With(aiStreamStore, id, entry)
      /\ streamTimers' = streamTimers \cup {id}
      /\ streamResp' = [NoResp EXCEPT !.type = "FETCH_AI_ENHANCE", !.id = id]
      /\ drain' = With(drain, id,
                       [NoDrain EXCEPT
                          !.st = IF hostError THEN "hostError"
                                 ELSE IF Len(chunks) = 0 \/ len = 0 THEN "invalid"
                                 ELSE "reading",
                          !.chunkCount = Len(chunks), !.total = len])
      /\ UNCHANGED <<chunkSize, deleteSent>>
      /\ UNCHANGED notStream

\* a timer that fires and leaves the entry where it is
StreamTimerFire_KeepsEntry(id) ==
  /\ id \in streamTimers
  /\ streamTimers' = streamTimers \ {id}
  /\ UNCHANGED <<chunkSize, aiStreamStore, nextStreamId, streamResp, drain, deleteSent>>
  /\ UNCHANGED notStream

\* background.js:192  the safety-TTL timer of a stream fires
StreamTimerFire(id) ==
  /\ id \in streamTimers
  /\ streamTimers' = streamTimers \ {id}
  /\ aiStreamStore' = Without(aiStreamStore, id)
  /\ UNCHANGED <<chunkSize, nextStreamId, streamResp, drain, deleteSent>>
  /\ UNCHANGED notStream

\* background.js:463-488  a chunk request arrives
OnStreamChunk(type, id, index) ==
  /\ streamResp' = ChunkReply(aiStreamStore, type, id, index)
  /\ UNCHANGED <<chunkSize, aiStreamStore, streamTimers, nextStreamId, drain, deleteSent>>
  /\ UNCHANGED notStream

\* background.js:490-495  a delete request arrives
OnStreamDelete(id) ==
  /\ aiStreamStore' = Without(aiStreamStore, id)
  /\ streamResp' = [NoResp EXCEPT !.type = "AI_STREAM_DELETE", !.id = id]
  /\ UNCHANGED <<chunkSize, streamTimers, nextStreamId, drain, deleteSent>>
  /\ UNCHANGED notStream

\* content.js:690-691  out.set(u8, offset); offset += u8.length; then i++
Received(d, u8) ==
  IF Len(d.out) + Len(u8) > d.total THEN [d EXCEPT !.st = "failed"]
  ELSE [d EXCEPT !.out = d.out \o u8, !.i = d.i + 1, !.phase = "bin"]

\* a consumer that gives up when the typed array does not arrive
ConsumerReadChunk_NoFallback(id, arrived) ==
  /\ id \in DOMAIN drain
  /\ drain[id].st = "reading" /\ drain[id].phase = "bin"
  /\ drain[id].i < drain[id].chunkCount
  /\ LET d == drain[id]
         r == ChunkReply(aiStreamStore, "AI_STREAM_CHUNK", id, d.i)
     IN  drain' = [drain EXCEPT ![id] =
                     IF ~r.ok \/ ~arrived THEN [d EXCEPT !.st = "failed"]
                     ELSE Received(d, r.chunk)]
  /\ UNCHANGED <<chunkSize, aiStreamStore, streamTimers, nextStreamId, streamResp, deleteSent>>
  /\ UNCHANGED notStream

\* content.js:675-682  the consumer asks for chunk i as a typed array; the
\* array may not survive the message channel (normalizeToArrayBuffer gives null)
ConsumerReadChunk(id, arrived) ==
  /\ id \in DOMAIN drain
  /\ drain[id].st = "reading" /\ drain[id].phase = "bin"
  /\ drain[id].i < drain[id].chunkCount
  /\ LET d == drain[id]
         r == ChunkReply(aiStreamStore, "AI_STREAM_CHUNK", id, d.i)
     IN  drain' = [drain EXCEPT ![id] =
                     IF ~r.ok THEN [d EXCEPT !.st = "failed"]
                     ELSE IF arrived THEN Received(d, r.chunk)
                     ELSE [d EXCEPT !.phase = "b64"]]
  /\ UNCHANGED <<chunkSize, aiStreamStore, streamTimers, nextStreamId, streamResp, deleteSent>>
  /\ UNCHANGED notStream

\* content.js:682-688  the consumer asks for the same chunk as base64
ConsumerReadChunkB64(id) ==
  /\ id \in DOMAIN drain
  /\ drain[id].st = "reading" /\ drain[id].phase = "b64"
  /\ LET d == drain[id]
         r2 == ChunkReply(aiStreamStore, "AI_STREAM_CHUNK_B64", id, d.i)
     IN  drain' = [drain EXCEPT ![id] =
                     IF ~r2.ok \/ r2.b64 = <<>> THEN [d EXCEPT !.st = "failed"]
                     ELSE Received(d, Base64ToArrayBuffer(r2.b64))]
  /\ UNCHANGED <<chunkSize, aiStreamStore, streamTimers, nextStreamId, streamResp, deleteSent>>
  /\ UNCHANGED notStream

\* a consumer that sends AI_STREAM_DELETE before the loop has ended
ConsumerFinish_Early(id) ==
  /\ id \in DOMAIN drain
  /\ drain[id].st = "reading" /\ drain[id].phase = "bin"
  /\ deleteSent' = deleteSent \cup {id}
  /\ drain' = [drain EXCEPT ![id].st = IF Len(drain[id].out) = 0 THEN "failed" ELSE "done"]
  /\ UNCHANGED <<chunkSize, aiStreamStore, streamTimers, nextStreamId, streamResp>>
  /\ UNCHANGED notStream

\* content.js:693-696  after the loop the consumer sends AI_STREAM_DELETE and
\* builds the blob from out[0, offset)
ConsumerFinish(id) ==
  /\ id \in DOMAIN drain
  /\ drain[id].st = "reading" /\ drain[id].phase = "bin"
  /\ drain[id].i >= drain[id].chunkCount
  /\ deleteSent' = deleteSent \cup {id}
  /\ drain' = [drain EXCEPT ![id].st = IF Len(drain[id].out) = 0 THEN "failed" ELSE "done"]
  /\ UNCHANGED <<chunkSize, aiStreamStore, streamTimers, nextStreamId, streamResp>>
  /\ UNCHANGED notStream

\* The consumer's steps on the streams stored so far.
ConsumerStep ==
  \E id \in 1..nextStreamId :
    \/ \E arrived \in BOOLEAN : ConsumerReadChunk(id, arrived)
    \/ ConsumerReadChunkB64(id)
    \/ ConsumerFinish(id)

InitStreamWith(size) ==
  /\ chunkSize = size
  /\ aiStreamStore = <<>>
  /\ streamTimers = {}
  /\ nextStreamId = 0
  /\ streamResp = NoResp
  /\ drain = <<>>
  /\ deleteSent = {}

\* background.js:159-160  the store of a freshly started service worker
InitStream == InitStreamWith(MaxChunkSize)

\* Chunking: one stream of any length up to MaxLen, read to its end by the
\* consumer.
NextChunks ==
  \/ /\ nextStreamId = 0
     /\ \E len \in 0..MaxLen, hostError \in BOOLEAN : StoreAiStream(len, hostError)
  \/ ConsumerStep
  \/ \E id \in deleteSent : OnStreamDelete(id)
  \/ \E id \in 1..nextStreamId : StreamTimerFire(id)

\* The store's protocol: stores, timers, and chunk and delete requests with any
\* id and index, the consumer's requests among them.
NextStream ==
  \/ /\ nextStreamId < MaxStreams
     /\ \E len \in 0..MaxProbeLen : StoreAiStream(len, FALSE)
  \/ \E id \in 1..nextStreamId : StreamTimerFire(id)
  \/ \E type \in {"AI_STREAM_CHUNK", "AI_STREAM_CHUNK_B64"},
        id \in 0..(MaxStreams + 1), index \in (-1)..(MaxProbeLen + 1) :
       OnStreamChunk(type, id, index)
  \/ \E id \in 0..(MaxStreams + 1) : OnStreamDelete(id)

\* The life of stream entries: stores, a consumer that reads, stalls, fails
\* or finishes, the deletes it has sent, and the timers.
NextStreamLife ==
  \/ /\ nextStreamId < MaxStreams
     /\ \E len \in 0..MaxProbeLen, hostError \in BOOLEAN : StoreAiStream(len, hostError)
  \/ ConsumerStep
  \/ \E id \in deleteSent : OnStreamDelete(id)
  \/ \E id \in 1..nextStreamId : StreamTimerFire(id)

\* setTimeout: a timer that is pending fires
FairStreamTimers == \A id \in 1..MaxStreams : WF_vars(StreamTimerFire(id))

-----------------------------------------------------------------------------
(* Starting and stopping the local AI host: background.js 226-305, 336-348,
   and the senders of HOST_START and HOST_STOP, content.js 66-77 *)

\* background.js:235
HOST_OK_TTL_MS == 2000
\* background.js:300
HOST_POLL_ATTEMPTS == 10
\* background.js:302
HOST_POLL_DELAY_MS == 400
\* content.js:70
HOST_START_MIN_GAP_MS == 8000

\* GET /health answers 200: the process is alive, also while it shuts down
HealthOk == host \in {"up", "stopping"}

\* background.js:231  pingHost() answers from the cache
PingCached(t) == t < hostOkUntil

\* a call of ensureHostRunning that has sent 'start' and has not returned
StartInFlight(task) == task.sentStart /\ task.pc # "done"

NoStartInFlight == \A k \in 1..Len(hostTasks) : ~StartInFlight(hostTasks[k])

NewTask(kind, tab) ==
  [kind |-> kind, tab |-> tab, pc |-> "init", i |-> 0, arrivedAt |-> now, executed |-> FALSE,
   called |-> FALSE, callAt |-> 0, stale |-> FALSE, alone |-> FALSE,
   sentStart |-> FALSE, result |-> "none"]

Done(task, ok) == [task EXCEPT !.pc = "done", !.result = IF ok THEN "true" ELSE "false"]

\* content.js:66-73  maybeStartHost in a tab lets the message through, and
\* background.js:336-337: the handler begins with startTray()
MaybeStartHost(tab) ==
  /\ Len(hostTasks) < MaxHostTasks
  /\ ~(now - lastHostStartAt[tab] < HOST_START_MIN_GAP_MS)
  /\ lastHostStartAt' = [lastHostStartAt EXCEPT ![tab] = now]
  /\ hostTasks' = Append(hostTasks,
                         [NewTask("HOST_START", tab) EXCEPT !.pc = "tray", !.executed = TRUE])
  /\ UNCHANGED <<now, host, hostOkUntil, startCmds, hostTicks>>
  /\ UNCHANGED notHost

\* content.js:75-77  maybeStopHost in a tab, and background.js:343-344, 282-284:
\* the handler begins with the 'stop' command of stopNativeHost
MaybeStopHost(tab) ==
  /\ Len(hostTasks) < MaxHostTasks
  /\ hostTasks' = Append(hostTasks,
                         [NewTask("HOST_STOP", tab) EXCEPT !.pc = "stop", !.executed = TRUE])
  /\ host' = IF host \in {"up", "booting"} THEN "stopping" ELSE host
  /\ UNCHANGED <<now, hostOkUntil, startCmds, lastHostStartAt, hostTicks>>
  /\ UNCHANGED notHost

\* background.js:338, 298, 230-233  startTray() has answered; ensureHostRunning
\* is called and its first pingHost() answers from the cache or asks /health
TrayStarted(t) ==
  /\ hostTasks[t].pc = "tray"
  /\ LET task == [hostTasks[t] EXCEPT !.called = TRUE, !.callAt = now,
                                      !.stale = ~PingCached(now), !.alone = NoStartInFlight]
     IN  hostTasks' = [hostTasks EXCEPT ![t] =
                         IF PingCached(now) THEN Done(task, TRUE)
                         ELSE [task EXCEPT !.pc = "ping0"]]
  /\ UNCHANGED <<now, host, hostOkUntil, startCmds, lastHostStartAt, hostTicks>>
  /\ UNCHANGED notHost

\* background.js:234-239, 298-299, 244  the first /health has answered; on
\* failure startNativeHost sends 'start'
FirstPingDone(t) ==
  /\ hostTasks[t].pc = "ping0"
  /\ IF HealthOk
     THEN /\ hostOkUntil' = now + HOST_OK_TTL_MS
          /\ hostTasks' = [hostTasks EXCEPT ![t] = Done(@, TRUE)]
          /\ UNCHANGED <<host, startCmds>>
     ELSE /\ hostTasks' = [hostTasks EXCEPT ![t].pc = "start", ![t].sentStart = TRUE]
          /\ startCmds' = startCmds + 1
          /\ host' = IF host = "down" THEN "booting" ELSE host
          /\ UNCHANGED hostOkUntil
  /\ UNCHANGED <<now, lastHostStartAt, hostTicks>>
  /\ UNCHANGED notHost

\* a loop with no bound on its attempts
LoopTop_Unbounded(task, t) ==
  IF PingCached(t) THEN Done(task, TRUE) ELSE [task EXCEPT !.pc = "poll"]

\* background.js:300-301  entering the loop body: i < 10, then pingHost()
LoopTop(task, t) ==
  IF task.i >= HOST_POLL_ATTEMPTS THEN Done(task, FALSE)
  ELSE IF PingCached(t) THEN Done(task, TRUE)
  ELSE [task EXCEPT !.pc = "poll"]

\* background.js:245, 300-301  the native host has answered 'start'
StartReplied(t) ==
  /\ hostTasks[t].pc = "start"
  /\ hostTasks' = [hostTasks EXCEPT ![t] = LoopTop(@, now)]
  /\ UNCHANGED <<now, host, hostOkUntil, startCmds, lastHostStartAt, hostTicks>>
  /\ UNCHANGED notHost

\* background.js:234-239, 301-302  a /health of the loop has answered
PollDone(t) ==
  /\ hostTasks[t].pc = "poll"
  /\ IF HealthOk
     THEN /\ hostOkUntil' = now + HOST_OK_TTL_MS
          /\ hostTasks' = [hostTasks EXCEPT ![t] = Done(@, TRUE)]
     ELSE /\ hostTasks' = [hostTasks EXCEPT ![t].pc = "delay"]
          /\ UNCHANGED hostOkUntil
  /\ UNCHANGED <<now, host, startCmds, lastHostStartAt, hostTicks>>
  /\ UNCHANGED notHost

\* background.js:302, 300  delay(400) is over: i++ and the loop's test
DelayDone(t) ==
  /\ hostTasks[t].pc = "delay"
  /\ now' = now + HOST_POLL_DELAY_MS
  /\ hostTasks' = [hostTasks EXCEPT ![t] = LoopTop([@ EXCEPT !.i = @ + 1], now')]
  /\ UNCHANGED <<host, hostOkUntil, startCmds, lastHostStartAt, hostTicks>>
  /\ UNCHANGED notHost

\* background.js:285-289  'stop' has been answered; POST /shutdown goes out
StopReplied(t) ==
  /\ hostTasks[t].pc = "stop"
  /\ hostTasks' = [hostTasks EXCEPT ![t].pc = "shutdown"]
  /\ host' = IF host \in {"up", "booting"} THEN "stopping" ELSE host
  /\ UNCHANGED <<now, hostOkUntil, startCmds, lastHostStartAt, hostTicks>>
  /\ UNCHANGED notHost

\* background.js:290-294  /shutdown is over: hostOkUntil = 0 and pingHost()
\* asks /health
ShutdownDone(t) ==
  /\ hostTasks[t].pc = "shutdown"
  /\ hostOkUntil' = 0
  /\ hostTasks' = [hostTasks EXCEPT ![t].pc = "reping"]
  /\ UNCHANGED <<now, host, startCmds, lastHostStartAt, hostTicks>>
  /\ UNCHANGED notHost

\* background.js:234-239, 294, 345  the /health after the stop has answered;
\* stopTray() goes out
StopPingDone(t) ==
  /\ hostTasks[t].pc = "reping"
  /\ hostOkUntil' = IF HealthOk THEN now + HOST_OK_TTL_MS ELSE hostOkUntil
  /\ hostTasks' = [hostTasks EXCEPT ![t].pc = "tray_stop"]
  /\ UNCHANGED <<now, host, startCmds, lastHostStartAt, hostTicks>>
  /\ UNCHANGED notHost

\* background.js:345-347  stopTray() has answered
TrayStopped(t, ok) ==
  /\ hostTasks[t].pc = "tray_stop"
  /\ hostTasks' = [hostTasks EXCEPT ![t] = Done(@, ok)]
  /\ UNCHANGED <<now, host, hostOkUntil, startCmds, lastHostStartAt, hostTicks>>
  /\ UNCHANGED notHost

\* The host process finishes booting, or finishes shutting down.
HostProcessStep ==
  /\ host \in {"booting", "stopping"}
  /\ host' = IF host = "booting" THEN "up" ELSE "down"
  /\ UNCHANGED <<now, hostOkUntil, hostTasks, startCmds, lastHostStartAt, hostTicks>>
  /\ UNCHANGED notHost

\* Time passes with no handler running.
HostTick ==
  /\ hostTicks < MaxHostTicks
  /\ hostTicks' = hostTicks + 1
  /\ now' = now + HOST_OK_TTL_MS
  /\ UNCHANGED <<host, hostOkUntil, hostTasks, startCmds, lastHostStartAt>>
  /\ UNCHANGED notHost

HostTaskStep ==
  \E t \in 1..Len(hostTasks) :
    \/ TrayStarted(t)
    \/ FirstPingDone(t)
    \/ StartReplied(t)
    \/ PollDone(t)
    \/ DelayDone(t)
    \/ StopReplied(t)
    \/ ShutdownDone(t)
    \/ StopPingDone(t)
    \/ \E ok \in BOOLEAN : TrayStopped(t, ok)

\* background.js:158, content.js:50  a fresh service worker and fresh tabs,
\* the host process not running
InitHost ==
  /\ host = "down"
  /\ hostOkUntil = 0
  /\ hostTasks = <<>>
  /\ startCmds = 0
  /\ lastHostStartAt = [tab \in 1..MaxTabs |-> 0]
  /\ hostTicks = 0

NextHost ==
  \/ \E tab \in 1..MaxTabs : MaybeStartHost(tab)
  \/ \E tab \in 1..MaxTabs : MaybeStopHost(tab)
  \/ HostTaskStep
  \/ HostProcessStep
  \/ HostTick

\* Calls of ensureHostRunning one after the other, from HOST_START messages,
\* with a host that boots when started, or does not.
NextEnsure ==
  \/ \E tab \in 1..MaxTabs :
       /\ \A k \in 1..Len(hostTasks) : hostTasks[k].pc = "done"
       /\ MaybeStartHost(tab)
  \/ \E t \in 1..Len(hostTasks) :
       \/ TrayStarted(t)
       \/ FirstPingDone(t)
       \/ StartReplied(t)
       \/ PollDone(t)
       \/ DelayDone(t)
  \/ HostProcessStep
  \/ HostTick

\* every await of a handler resolves: the native host and the local server
\* answer or the call fails, and setTimeout fires
FairHostTasks == WF_vars(HostTaskStep)

-----------------------------------------------------------------------------
(* The failure cooldown of the content script: content.js 610-664, 919-927,
   986-1009, 1050-1072, 1165-1260, 1262-1339, 1464-1485 *)

\* content.js:654
AI_FAIL_THRESHOLD == 5
\* content.js:655
AI_FAIL_COOLDOWN_MS == 20000
\* content.js:922
COOLDOWN_RETRY_SLACK_MS == 600
\* content.js:990
AI_BURST_WINDOW_MS == 25000
\* content.js:996
AI_BURST_LIMIT == 8
\* content.js:1000
AI_BURST_COOLDOWN_MS == 8000
\* content.js:1269
COOLDOWN_NOTICE_DEFAULT_MS == 20000

\* how far time moves in one step: half a cooldown window and the retry slack,
\* so that one step ends inside a cooldown and two end after its retry is due
CdTimeSteps == {AI_FAIL_COOLDOWN_MS \div 2 + COOLDOWN_RETRY_SLACK_MS}

Max(a, b) == IF a > b THEN a ELSE b

\* A gate that is always open.
IsCoolingDown_Never(downUntil, t) == FALSE

\* content.js:615, 1057, 1266  Date.now() < aiHostDownUntil
IsCoolingDown(downUntil, t) == t < downUntil

\* A threshold one failure too low.
FailThresholdReached_Early(count) == count >= AI_FAIL_THRESHOLD - 1

\* content.js:654  aiHostFailCount >= 5
FailThresholdReached(count) == count >= AI_FAIL_THRESHOLD

\* A success that keeps the count.
CountAfterSuccess_Kept(count) == count

\* content.js:661  aiHostFailCount = 0
CountAfterSuccess(count) == 0

Idle == [pc |-> "idle", preload |-> FALSE, manual |-> FALSE, retried |-> FALSE, left |-> 0]

\* The content script's state as one record; ev and who say what the handler
\* that is running has done to an enhancement attempt, manual whether the
\* cycle at work was started with showStatus, toasts what makeToast was called
\* with: "status" (content.js:1279), "noPanel" (1282), "label" (1260), "notice"
\* (the cooldown notices of 1005, 1270, 1304, 1331), "failed" (1335) and
\* "menuError" (1482); asked counts the calls of scheduleAfterCooldown, armed
\* those of setTimeout in it, fired the retry timers that fired.
CS ==
  [aiHostDownUntil |-> aiHostDownUntil, aiHostFailCount |-> aiHostFailCount,
   aiBurstCount |-> aiBurstCount, aiBurstLastAt |-> aiBurstLastAt,
   cooldownRetryTimer |-> cooldownRetryTimer, cooldownRetryPreload |-> cooldownRetryPreload,
   cooldownNotifiedUntil |-> cooldownNotifiedUntil, busy |-> busy, po |-> po, menu |-> menu,
   lastHostStartAt |-> lastHostStartAt[1], ev |-> "other", who |-> "none",
   manual |-> po.manual, toasts |-> <<>>, asked |-> 0, armed |-> 0, fired |-> 0]

\* requests of the content script that wait for their response
Awaiting(p, m) ==
  (IF p.pc \in {"enhance", "preload"} THEN 1 ELSE 0)
  + Cardinality({k \in 1..Len(m) : m[k].pc = "wait"})

\* a timer that does not wait for the cooldown's end
ScheduleAfterCooldown_NoWait(s, preload, t) ==
  LET s1 == [s EXCEPT !.cooldownRetryPreload = preload, !.asked = @ + 1] IN
  IF s.cooldownRetryTimer # 0 THEN s1
  ELSE [s1 EXCEPT !.armed = @ + 1, !.cooldownRetryTimer = t + COOLDOWN_RETRY_SLACK_MS]

\* scheduleAfterCooldown without its test of the pending timer
ScheduleAfterCooldown_Always(s, preload, t) ==
  [s EXCEPT !.cooldownRetryPreload = preload, !.asked = @ + 1, !.armed = @ + 1,
            !.cooldownRetryTimer =
               t + Max(0, s.aiHostDownUntil - t) + COOLDOWN_RETRY_SLACK_MS]

\* content.js:919-927  scheduleAfterCooldown(preload)
ScheduleAfterCooldown(s, preload, t) ==
  LET s1 == [s EXCEPT !.cooldownRetryPreload = preload, !.asked = @ + 1] IN
  IF s.cooldownRetryTimer # 0 THEN s1
  ELSE [s1 EXCEPT !.armed = @ + 1,
                  !.cooldownRetryTimer =
                     t + Max(0, s.aiHostDownUntil - t) + COOLDOWN_RETRY_SLACK_MS]

\* content.js:338-339  makeToast, with settings.showToast at its default
MakeToast(s, text) == [s EXCEPT !.toasts = Append(@, text)]

\* a notice that is always due
NoticeDue_Always(notifiedUntil, t) == TRUE

\* content.js:1003, 1268, 1302, 1329  Date.now() > cooldownNotifiedUntil
NoticeDue(notifiedUntil, t) == t > notifiedUntil

\* content.js:1268-1271, 1302-1305, 1329-1332  the notice, once per cooldown
NotifyCooldown(s, t) ==
  IF NoticeDue(s.cooldownNotifiedUntil, t)
  THEN MakeToast([s EXCEPT !.cooldownNotifiedUntil =
                              IF s.aiHostDownUntil # 0 THEN s.aiHostDownUntil
                              ELSE t + COOLDOWN_NOTICE_DEFAULT_MS], "notice")
  ELSE s

\* content.js:1267-1272, 1300-1306, 1327-1333  what processOnce does about cooldown
OnCooldownError(s, preload, t) == NotifyCooldown(ScheduleAfterCooldown(s, preload, t), t)

\* content.js:1336-1338  processOnce returns: finally busy = false
Finish(s) == [s EXCEPT !.busy = FALSE, !.po = Idle]

\* content.js:66-73  maybeStartHost as far as the content script's state goes
StartHostNoted(s, t) ==
  IF t - s.lastHostStartAt < HOST_START_MIN_GAP_MS THEN s
  ELSE [s EXCEPT !.lastHostStartAt = t]

\* content.js:651-661  enhanceViaHost reads the response to FETCH_AI_ENHANCE
OnEnhanceResponse(s, ok, t) ==
  IF ~ok
  THEN LET count == s.aiHostFailCount + 1 IN
       IF FailThresholdReached(count)
       THEN [s EXCEPT !.aiHostDownUntil = t + AI_FAIL_COOLDOWN_MS, !.aiHostFailCount = 0,
                      !.ev = "engaged"]
       ELSE [s EXCEPT !.aiHostFailCount = count, !.ev = "fail"]
  ELSE [s EXCEPT !.aiHostFailCount = CountAfterSuccess(s.aiHostFailCount), !.ev = "ok"]

\* content.js:986-1009  bumpAiBurstAndMaybeCooldown(true, preload); ev is
\* "burst" when it returns true
BumpAiBurstAndMaybeCooldown(s, preload, t) ==
  LET count == (IF s.aiBurstLastAt = 0 \/ (t - s.aiBurstLastAt) > AI_BURST_WINDOW_MS
                THEN 0 ELSE s.aiBurstCount) + 1
  IN  IF count < AI_BURST_LIMIT
      THEN [s EXCEPT !.aiBurstLastAt = t, !.aiBurstCount = count]
      ELSE LET s1 == [s EXCEPT !.aiBurstLastAt = t, !.aiBurstCount = 0,
                               !.aiHostDownUntil = t + AI_BURST_COOLDOWN_MS, !.ev = "burst"]
               s2 == ScheduleAfterCooldown(s1, preload, t)
           IN  IF NoticeDue(s2.cooldownNotifiedUntil, t)
               THEN MakeToast([s2 EXCEPT !.cooldownNotifiedUntil = s2.aiHostDownUntil],
                              "notice")
               ELSE s2

\* content.js:1189, 610-646, 1324-1338  enhanceViaHost for the current item of
\* processOnce: the gate, then the request; a throw ends processOnce
EnhanceCurrent(s, t) ==
  IF IsCoolingDown(s.aiHostDownUntil, t)
  THEN Finish(OnCooldownError([s EXCEPT !.ev = "reject", !.who = "current"], s.po.preload, t))
  ELSE [StartHostNoted(s, t) EXCEPT !.po.pc = "enhance", !.ev = "send", !.who = "current"]

\* a preload loop that does not look at the cooldown
PreloadNext_NoGate(s, t) ==
  IF s.po.left = 0 THEN Finish(s)
  ELSE [StartHostNoted(s, t) EXCEPT !.po.pc = "preload", !.po.left = @ - 1,
                                     !.ev = "send", !.who = "preload"]

\* content.js:1293-1311, 1050-1072  the preload loop at its next candidate:
\* preloadAiForImage's gate, then the request; the cooldown error ends processOnce
PreloadNext(s, t) ==
  IF s.po.left = 0 THEN Finish(s)
  ELSE IF IsCoolingDown(s.aiHostDownUntil, t)
  THEN Finish(OnCooldownError([s EXCEPT !.ev = "reject", !.who = "preload"], s.po.preload, t))
  ELSE [StartHostNoted(s, t) EXCEPT !.po.pc = "preload", !.po.left = @ - 1,
                                     !.ev = "send", !.who = "preload"]

\* a burst limit for every cycle
ShouldBurstLimit_Always(manual) == TRUE

\* content.js:1285-1286  shouldBurstLimit = settings.autoPanel && !manual;
\* autoPanel is on in a cycle that the auto tick has started
ShouldBurstLimit(manual) == ~manual

\* content.js:1288-1311  processImageElement has returned: the burst limit in
\* auto mode, then the preload loop over n candidates
AfterCurrent(s, n, t) ==
  LET b == IF ShouldBurstLimit(s.po.manual)
           THEN BumpAiBurstAndMaybeCooldown(s, s.po.preload, t) ELSE s IN
  IF b.ev = "burst" THEN Finish(b)
  ELSE IF s.po.preload THEN PreloadNext([b EXCEPT !.po.left = n], t)
  ELSE Finish(b)

\* content.js:1262-1289  processOnce(preload, showStatus) up to its first await.
\* item is what findBestVisibleImage and the head of processImageElement make
\* of the page: no image, an image that is skipped, or one to enhance.
ProcessOnce(s, preload, manual, item, n, t) ==
  IF IsCoolingDown(s.aiHostDownUntil, t)
  THEN OnCooldownError([s EXCEPT !.ev = "reject", !.who = "run"], preload, t)
  ELSE IF s.busy THEN s
  ELSE LET s0 == [s EXCEPT !.busy = TRUE, !.manual = manual,
                           !.po = [Idle EXCEPT !.preload = preload, !.manual = manual]]
           s1 == IF manual THEN MakeToast(s0, "status") ELSE s0
       IN  CASE item = "none" -> Finish(MakeToast(s1, "noPanel"))
             [] item = "skip" -> AfterCurrent(s1, n, t)
             [] OTHER -> EnhanceCurrent(s1, t)

\* The handler's result r becomes the state; cdLast keeps what happened and
\* what the counters were before.
Commit(r) ==
  /\ aiHostDownUntil' = r.aiHostDownUntil
  /\ aiHostFailCount' = r.aiHostFailCount
  /\ aiBurstCount' = r.aiBurstCount
  /\ aiBurstLastAt' = r.aiBurstLastAt
  /\ cooldownRetryTimer' = r.cooldownRetryTimer
  /\ cooldownRetryPreload' = r.cooldownRetryPreload
  /\ cooldownNotifiedUntil' = r.cooldownNotifiedUntil
  /\ busy' = r.busy
  /\ po' = r.po
  /\ menu' = r.menu
  /\ lastHostStartAt' = [lastHostStartAt EXCEPT ![1] = r.lastHostStartAt]
  /\ cdLast' = [ev |-> r.ev, who |-> r.who, at |-> now,
                countBefore |-> aiHostFailCount, downBefore |-> aiHostDownUntil,
                awaitingBefore |-> Awaiting(po, menu),
                streak |-> IF r.ev \in {"fail", "engaged"} THEN streak + 1 ELSE streak,
                manual |-> r.manual, toasts |-> r.toasts,
                asked |-> r.asked, armed |-> r.armed, fired |-> r.fired,
                timers |-> cdLast.timers - r.fired + r.armed,
                notices |-> (IF r.aiHostDownUntil # aiHostDownUntil THEN 0
                             ELSE cdLast.notices)
                            + Len(SelectSeq(r.toasts, LAMBDA x : x = "notice"))]
  /\ streak' = IF r.ev = "fail" THEN streak + 1
               ELSE IF r.ev \in {"engaged", "ok"} THEN 0 ELSE streak
  /\ UNCHANGED <<now, cdTicks>>
  /\ UNCHANGED notCooldown

Items == {"none", "skip", "fresh"}

\* content.js:1464-1466  RUN_ONCE: processOnce(!!msg.preload, true), on a page
\* with at most max candidates
RunOnceUpTo(max) ==
  \E preload \in BOOLEAN, item \in Items, n \in 0..max :
    Commit(ProcessOnce(CS, preload, TRUE, item, n, now))

RunOnce == RunOnceUpTo(MaxCandidates)

\* content.js:1372, 1382  the auto tick: processOnce(shouldPreload)
AutoTick ==
  \E preload \in BOOLEAN, item \in Items, n \in 0..MaxCandidates :
    Commit(ProcessOnce(CS, preload, FALSE, item, n, now))

\* content.js:923-926  the retry timer fires
CooldownRetryFire ==
  /\ cooldownRetryTimer # 0
  /\ now >= cooldownRetryTimer
  /\ \E item \in Items, n \in 0..MaxCandidates :
       Commit(ProcessOnce([CS EXCEPT !.cooldownRetryTimer = 0, !.fired = 1],
                          cooldownRetryPreload, TRUE, item, n, now))

\* content.js:1335  if (msg) makeToast('AI failed: ...'), msg being the
\* message of the error, which is never empty
ShowsFailure(manual) == TRUE

\* content.js:1324-1338  processOnce catches what processImageElement threw
CaughtInProcessOnce(s, t) ==
  Finish(IF s.ev = "engaged" THEN OnCooldownError(s, s.po.preload, t)
         ELSE IF ShowsFailure(s.po.manual) THEN MakeToast(s, "failed")
         ELSE s)

\* content.js:651-664  the response for the current item arrives
EnhanceResponse(ok) ==
  /\ po.pc = "enhance"
  /\ LET r == OnEnhanceResponse([CS EXCEPT !.who = "current"], ok, now) IN
     Commit(IF ok THEN [r EXCEPT !.po.pc = "render"] ELSE CaughtInProcessOnce(r, now))

\* content.js:1196-1239, 1288  the enhanced image is put on the page: it shows,
\* it fails, or its decoding fails and PNG is asked for once (content.js:1225)
RenderDone(outcome, n) ==
  /\ po.pc = "render"
  /\ outcome = "pngRetry" => ~po.retried
  /\ Commit(CASE outcome = "applied" -> AfterCurrent(MakeToast(CS, "label"), n, now)
              [] outcome = "failed" ->
                   CaughtInProcessOnce([CS EXCEPT !.ev = "renderFailed", !.who = "current"],
                                       now)
              [] OTHER -> EnhanceCurrent([CS EXCEPT !.po.retried = TRUE], now))

\* content.js:1072-1089, 1296-1310  the response for a preload candidate
\* arrives; a failure is ignored per item and the loop goes on
PreloadResponse ==
  /\ po.pc = "preload"
  /\ Commit(PreloadNext(CS, now))

RemoveCall(m, k) == SubSeq(m, 1, k - 1) \o SubSeq(m, k + 1, Len(m))

\* content.js:1189, 610-646, 1480-1483  enhanceViaHost in an ENHANCE_IMAGE_URL
\* handler: the gate, then the request; a throw ends the handler
EnhanceFromMenu(s, k, retried, t) ==
  IF IsCoolingDown(s.aiHostDownUntil, t)
  THEN MakeToast([s EXCEPT !.menu = IF k = 0 THEN @ ELSE RemoveCall(@, k),
                           !.ev = "reject", !.who = "menu"], "menuError")
  ELSE [StartHostNoted(s, t) EXCEPT
          !.menu = IF k = 0 THEN Append(@, [pc |-> "wait", retried |-> retried])
                   ELSE [@ EXCEPT ![k] = [pc |-> "wait", retried |-> retried]],
          !.ev = "send", !.who = "menu"]

\* content.js:1467-1479  ENHANCE_IMAGE_URL for an image to enhance
EnhanceImageUrl ==
  /\ Len(menu) < MaxMenuCalls
  /\ Commit(EnhanceFromMenu(CS, 0, FALSE, now))

\* content.js:651-664  the response for an ENHANCE_IMAGE_URL handler arrives
MenuResponse(k, ok) ==
  /\ menu[k].pc = "wait"
  /\ LET r == OnEnhanceResponse([CS EXCEPT !.who = "menu"], ok, now) IN
     Commit(IF ok THEN [r EXCEPT !.menu[k].pc = "render"]
            ELSE MakeToast([r EXCEPT !.menu = RemoveCall(@, k)], "menuError"))

\* content.js:1196-1239  as RenderDone, in an ENHANCE_IMAGE_URL handler
MenuRenderDone(k, outcome) ==
  /\ menu[k].pc = "render"
  /\ outcome = "pngRetry" => ~menu[k].retried
  /\ Commit(IF outcome = "pngRetry" THEN EnhanceFromMenu(CS, k, TRUE, now)
            ELSE MakeToast([CS EXCEPT !.menu = RemoveCall(@, k)],
                           IF outcome = "applied" THEN "label" ELSE "menuError"))

MenuStep ==
  \E k \in 1..Len(menu) :
    \/ \E ok \in BOOLEAN : MenuResponse(k, ok)
    \/ \E outcome \in {"applied", "failed", "pngRetry"} : MenuRenderDone(k, outcome)

\* Time passes in the content script, at most max times.
CdTickUpTo(max) ==
  /\ cdTicks < max
  /\ cdTicks' = cdTicks + 1
  /\ \E d \in CdTimeSteps : now' = now + d
  /\ UNCHANGED <<aiHostDownUntil, aiHostFailCount, aiBurstCount, aiBurstLastAt,
                 cooldownRetryTimer, cooldownRetryPreload, cooldownNotifiedUntil, busy,
                 po, menu, cdLast, streak, lastHostStartAt>>
  /\ UNCHANGED notCooldown

CdTick == CdTickUpTo(MaxCdTicks)

\* content.js:36-44  the content script as loaded
InitCooldown ==
  /\ aiHostDownUntil = 0
  /\ aiHostFailCount = 0
  /\ aiBurstCount = 0
  /\ aiBurstLastAt = 0
  /\ cooldownRetryTimer = 0
  /\ cooldownRetryPreload = FALSE
  /\ cooldownNotifiedUntil = 0
  /\ busy = FALSE
  /\ po = Idle
  /\ menu = <<>>
  /\ cdLast = [ev |-> "none", who |-> "none", at |-> 0, countBefore |-> 0, downBefore |-> 0,
               awaitingBefore |-> 0, streak |-> 0, manual |-> FALSE, toasts |-> <<>>,
               asked |-> 0, armed |-> 0, fired |-> 0, timers |-> 0, notices |-> 0]
  /\ streak = 0
  /\ cdTicks = 0

\* Manual runs, the retry timer and the context menu; the auto tick, which
\* adds the burst limit, is left to the burst limit's own specification.
NextCooldown ==
  \/ RunOnce
  \/ CooldownRetryFire
  \/ \E ok \in BOOLEAN : EnhanceResponse(ok)
  \/ \E outcome \in {"applied", "failed", "pngRetry"}, n \in 0..MaxCandidates :
       RenderDone(outcome, n)
  \/ PreloadResponse
  \/ EnhanceImageUrl
  \/ MenuStep
  \/ CdTick

\* Auto ticks with the burst limit, the retry timer and the context menu.
NextBurst ==
  \/ AutoTick
  \/ CooldownRetryFire
  \/ \E ok \in BOOLEAN : EnhanceResponse(ok)
  \/ \E outcome \in {"applied", "failed", "pngRetry"}, n \in 0..MaxCandidates :
       RenderDone(outcome, n)
  \/ PreloadResponse
  \/ EnhanceImageUrl
  \/ MenuStep
  \/ CdTickUpTo(MaxBurstTicks)

\* Time passes until the retry timer is due.
RetryTimerDue ==
  /\ cooldownRetryTimer # 0
  /\ now < cooldownRetryTimer
  /\ now' = cooldownRetryTimer
  /\ cdTicks' = cdTicks + 1
  /\ UNCHANGED <<aiHostDownUntil, aiHostFailCount, aiBurstCount, aiBurstLastAt,
                 cooldownRetryTimer, cooldownRetryPreload, cooldownNotifiedUntil, busy,
                 po, menu, cdLast, streak, lastHostStartAt>>
  /\ UNCHANGED notCooldown

\* Manual runs on pages with a batch of candidates, the retry timer and the
\* context menu, whose failures engage the cooldown while a batch is fetched.
NextPreload ==
  \/ RunOnceUpTo(MaxBatch)
  \/ CooldownRetryFire
  \/ \E ok \in BOOLEAN : EnhanceResponse(ok)
  \/ \E outcome \in {"applied", "failed", "pngRetry"}, n \in 0..MaxBatch :
       RenderDone(outcome, n)
  \/ PreloadResponse
  \/ EnhanceImageUrl
  \/ MenuStep
  \/ cdTicks < MaxBatchTicks /\ RetryTimerDue

\* Cycles and their retries: the user and the auto tick start cycles for a
\* while, the retry timer for as long as it is set.
NextRetry ==
  \/ cdTicks < MaxCdTicks /\ RunOnce
  \/ cdTicks < MaxCdTicks /\ AutoTick
  \/ CooldownRetryFire
  \/ \E ok \in BOOLEAN : EnhanceResponse(ok)
  \/ \E outcome \in {"applied", "failed", "pngRetry"}, n \in 0..MaxCandidates :
       RenderDone(outcome, n)
  \/ PreloadResponse
  \/ RetryTimerDue

\* setTimeout: time passes, and a timer whose time has come fires
FairRetryTimer == WF_vars(RetryTimerDue) /\ WF_vars(CooldownRetryFire)

\* Cycles of every origin (RUN_ONCE, auto tick, retry timer) with the burst
\* limit, and no context menu.
NextNotices ==
  \/ RunOnce
  \/ AutoTick
  \/ CooldownRetryFire
  \/ \E ok \in BOOLEAN : EnhanceResponse(ok)
  \/ \E outcome \in {"applied", "failed", "pngRetry"}, n \in 0..MaxCandidates :
       RenderDone(outcome, n)
  \/ PreloadResponse
  \/ CdTickUpTo(MaxBurstTicks)

-----------------------------------------------------------------------------
(* The page: its images, the panel in view and the preload candidates:
   content.js 109-174, 442-510, 830, 1011-1048, 1396-1411.  An image is a
   record of what the code reads of the element: its bounding client rect
   (left, top, width, height, in viewport pixels), its natural size, its src
   and data-src attributes ("" absent, "http" a network URL, "empty" the
   placeholder 'data:image/gif;base64,'), whether it is attached to the
   document, and dataset.muUpscaled.  An image is named by its index. *)

\* content.js:443  window.innerWidth and window.innerHeight
innerWidth == 1000

innerHeight == 1000

\* content.js:437-439, 830
isComixReader(st) == st = "comix"

isWeebCentral(st) == st = "weebcentral"

\* content.js:109-111
isEmptyBase64DataUrl(u) == u = "empty"

\* content.js:128-174: the first network URL among the attributes, else the
\* first data URL that is not the empty placeholder, else whatever came first
getBestImageUrl(img) ==
  LET out == SelectSeq(<<img.src, img.dataSrc>>, LAMBDA u : u # "")
      http == SelectSeq(out, LAMBDA u : u = "http")
  IN  IF http # <<>> THEN http[1]
      ELSE IF out # <<>> THEN out[1]
      ELSE ""

\* Array.prototype.slice(0, n)
TakeFirst(seq, n) == SubSeq(seq, 1, Min(n, Len(seq)))

\* Array.prototype.sort with a comparator on (k1, k2): stable, ascending
KeyLess(a, b) == a.k1 < b.k1 \/ (a.k1 = b.k1 /\ a.k2 < b.k2)

InsertSorted(sorted, x) ==
  LET p == Cardinality({j \in 1..Len(sorted) : ~KeyLess(x, sorted[j])})
  IN  SubSeq(sorted, 1, p) \o <<x>> \o SubSeq(sorted, p + 1, Len(sorted))

RECURSIVE SortUpTo(_, _)
SortUpTo(seq, k) ==
  IF k = 0 THEN <<>> ELSE InsertSorted(SortUpTo(seq, k - 1), seq[k])

StableSort(seq) == SortUpTo(seq, Len(seq))

\* document.images: the attached images, in document order
DocumentImages(imgs) == SelectSeq([i \in 1..Len(imgs) |-> i], LAMBDA i : imgs[i].isConnected)

\* a filter that keeps images already marked as upscaled
IsCandidate_KeepsDone(imgs, cur, i, st) == i # cur

\* content.js:1014-1034  the filter of getNextCandidateImages; the scroll
\* offset is added to both tops of every comparison and is left out
IsCandidate(imgs, cur, i, st) ==
  LET c == imgs[cur]
      r == imgs[i]
      curW == Max(1, IF c.width # 0 THEN c.width ELSE c.naturalWidth)
      curH == Max(1, IF c.height # 0 THEN c.height ELSE c.naturalHeight)
      floor == IF isWeebCentral(st) THEN 320 ELSE 220
      maxScreens == IF isWeebCentral(st) THEN 5 ELSE 8
      u == getBestImageUrl(r)
  IN  /\ i # cur
      /\ ~r.muUpscaled
      /\ u # "" /\ ~isEmptyBase64DataUrl(u)
      \* r.width < Math.max(floor, curW * 0.55), in hundredths of a pixel
      /\ ~(r.width * 100 < Max(floor * 100, curW * 55))
      /\ ~(r.height * 100 < Max(floor * 100, curH * 55))
      \* top < curTop - innerHeight * 0.5, doubled
      /\ ~(2 * r.top < 2 * c.top - innerHeight)
      /\ ~(r.top > c.top + innerHeight * maxScreens)

\* content.js:1011-1048
getNextCandidateImages(imgs, cur, n, st) ==
  IF n <= 0 THEN <<>>
  ELSE
    LET curTop == imgs[cur].top
        kept == SelectSeq(DocumentImages(imgs), LAMBDA i : IsCandidate(imgs, cur, i, st))
        ordered == StableSort([j \in 1..Len(kept) |->
                                 [i |-> kept[j], top |-> imgs[kept[j]].top,
                                  k1 |-> 0, k2 |-> imgs[kept[j]].top]])
        below == TakeFirst(SelectSeq(ordered, LAMBDA x : x.top > curTop + 4), n)
        scored == StableSort([j \in 1..Len(ordered) |->
                                [i |-> ordered[j].i,
                                 k1 |-> IF ordered[j].top >= curTop THEN 0 ELSE 1,
                                 k2 |-> IF ordered[j].top >= curTop
                                          THEN ordered[j].top - curTop
                                          ELSE curTop - ordered[j].top]])
        nearest == TakeFirst(scored, n)
    IN  IF Len(below) >= n
          THEN [j \in 1..Len(below) |-> below[j].i]
          ELSE [j \in 1..Len(nearest) |-> nearest[j].i]

NoRet == [op |-> "none", cur |-> 0, n |-> 0, ret |-> <<>>, before |-> <<>>]

\* content.js:1290-1292  processOnce asks for the candidates after the
\* current image; one selection is looked at per page
NextCandidates(cur, n) ==
  /\ pageRet = NoRet
  /\ cur \in 1..Len(images)
  /\ images[cur].isConnected
  /\ pageRet' = [op |-> "next", cur |-> cur, n |-> n,
                 ret |-> getNextCandidateImages(images, cur, n, site), before |-> <<>>]
  /\ UNCHANGED <<images, site, visibleScores>>
  /\ UNCHANGED notPage

\* A page of panels: the kinds of image and the places they are at
PanelKinds ==
  { [width |-> 600, height |-> 800, src |-> "http", muUpscaled |-> FALSE],
    [width |-> 600, height |-> 800, src |-> "http", muUpscaled |-> TRUE],
    [width |-> 600, height |-> 800, src |-> "empty", muUpscaled |-> FALSE],
    [width |-> 300, height |-> 300, src |-> "http", muUpscaled |-> FALSE] }

PanelTops == {0, 400, 9000}

PanelImage(k, t) ==
  [left |-> 200, top |-> t, width |-> k.width, height |-> k.height,
   naturalWidth |-> k.width, naturalHeight |-> k.height,
   src |-> k.src, dataSrc |-> "", isConnected |-> TRUE, muUpscaled |-> k.muUpscaled]

\* content.js:48  no image is tracked before the observer reports
InitPage ==
  /\ images = <<>>
  /\ site = "other"
  /\ visibleScores = <<>>
  /\ pageRet = NoRet

InitPanels ==
  /\ \E kinds \in [1..MaxImages -> PanelKinds], tops \in [1..MaxImages -> PanelTops] :
       images = [i \in 1..MaxImages |-> PanelImage(kinds[i], tops[i])]
  /\ site \in {"other", "weebcentral"}
  /\ visibleScores = <<>>
  /\ pageRet = NoRet

NextPanels == \E cur \in 1..MaxImages, n \in 0..MaxAsk : NextCandidates(cur, n)

\* a / b > c / d for a, c >= 0 and b, d > 0, exactly, by comparing the
\* integer parts and then the reciprocals of the remainders
RECURSIVE FracGreater(_, _, _, _)
FracGreater(a, b, c, d) ==
  IF a \div b # c \div d THEN a \div b > c \div d
  ELSE IF a % b = 0 THEN FALSE
  ELSE IF c % d = 0 THEN TRUE
  ELSE FracGreater(d, c % d, b, a % b)

Abs(x) == IF x < 0 THEN 0 - x ELSE x

\* a score that ignores where the image is
scoreImg_AreaOnly(img, area, st) == [num |-> area, den |-> 1]

\* content.js:447-462  scoreImg: area * 1 / (1 + dx + dy * 1.4) * comixBoost,
\* kept as the exact fraction num / den; every score is the code's number
\* divided by vw * vh, which is positive and the same for all images, so the
\* order of the scores and their sign are the code's, up to rounding.
scoreImg(img, area, st) ==
  LET vw == Max(1, innerWidth)
      vh == Max(1, innerHeight)
      \* twice the distance of the centre from the viewport's centre
      ddx == Abs(2 * img.left + img.width - innerWidth)
      ddy == Abs(2 * img.top + img.height - innerHeight)
      \* comixBoost in twentieths: 1.15 or 1.0
      boost == IF isComixReader(st) THEN 23 ELSE 20
  IN  [num |-> area * boost,
       \* 20 * vw * vh * (1 + dx + 1.4 * dy), dx = ddx / (2 vw), dy = ddy / (2 vh)
       den |-> 20 * vw * vh + 10 * ddx * vh + 14 * ddy * vw]

ScoreGreater(s, t) == FracGreater(s.num, s.den, t.num, t.den)

ZeroScore == [num |-> 0, den |-> 1]

\* content.js:468-476  an entry of visibleScores that the loop keeps; the
\* image's currentSrc is its src
IsUsable(img) ==
  /\ img.isConnected
  /\ img.src # ""
  /\ getBestImageUrl(img) # ""
  /\ ~isEmptyBase64DataUrl(getBestImageUrl(img))

\* content.js:465-482  the loop over visibleScores: best and bestScore after
\* the first k entries
RECURSIVE BestTracked(_, _, _, _)
BestTracked(imgs, scores, st, k) ==
  IF k = 0 THEN [best |-> 0, bestScore |-> ZeroScore]
  ELSE
    LET prev == BestTracked(imgs, scores, st, k - 1)
        e == scores[k]
        s == scoreImg(imgs[e.img], e.area, st)
    IN  IF IsUsable(imgs[e.img]) /\ ScoreGreater(s, prev.bestScore)
          THEN [best |-> e.img, bestScore |-> s]
          ELSE prev

\* content.js:494-502  the viewport intersection area of the full scan, 0 for
\* an image the scan skips
ScanArea(img) ==
  LET right == img.left + img.width
      bottom == img.top + img.height
      iw == Min(right, innerWidth) - Max(img.left, 0)
      ih == Min(bottom, innerHeight) - Max(img.top, 0)
  IN  IF img.width < 80 \/ img.height < 80 THEN 0
      ELSE IF bottom < 0 \/ right < 0 \/ img.top > innerHeight \/ img.left > innerWidth THEN 0
      ELSE IF iw <= 0 \/ ih <= 0 THEN 0
      ELSE iw * ih

\* content.js:486-509  the full scan of document.images
RECURSIVE BestScanned(_, _, _, _)
BestScanned(imgs, doc, st, k) ==
  IF k = 0 THEN [best |-> 0, bestScore |-> ZeroScore]
  ELSE
    LET prev == BestScanned(imgs, doc, st, k - 1)
        img == imgs[doc[k]]
        u == getBestImageUrl(img)
        s == scoreImg(img, ScanArea(img), st)
    IN  IF /\ img.src # ""
           /\ u # "" /\ ~isEmptyBase64DataUrl(u)
           /\ ScanArea(img) > 0
           /\ ScoreGreater(s, prev.bestScore)
          THEN [best |-> doc[k], bestScore |-> s]
          ELSE prev

\* content.js:442-510  the image returned (0 for null) and visibleScores as
\* the loop leaves it
findBestVisibleImage(imgs, scores, st) ==
  LET tracked == BestTracked(imgs, scores, st, Len(scores))
      kept == SelectSeq(scores, LAMBDA e : IsUsable(imgs[e.img]))
      doc == DocumentImages(imgs)
  IN  IF Len(scores) > 0 /\ tracked.best # 0
        THEN [best |-> tracked.best, scores |-> kept]
        ELSE [best |-> BestScanned(imgs, doc, st, Len(doc)).best, scores |-> kept]

\* Map.prototype.delete and Map.prototype.set: a key that is set again keeps
\* its place
ScoresDelete(scores, i) == SelectSeq(scores, LAMBDA e : e.img # i)

ScoresSet(scores, i, area) ==
  IF \E k \in 1..Len(scores) : scores[k].img = i
    THEN [k \in 1..Len(scores) |->
            IF scores[k].img = i THEN [img |-> i, area |-> area] ELSE scores[k]]
    ELSE Append(scores, [img |-> i, area |-> area])

\* content.js:1396-1411  the IntersectionObserver's callback for one entry
\* with intersection rect w x h
OnIntersection(i, isIntersecting, w, h) ==
  /\ pageRet = NoRet
  /\ i \in 1..Len(images)
  /\ Len(ScoresDelete(visibleScores, i)) < MaxTracked
  /\ visibleScores' =
       IF images[i].src = "" \/ ~isIntersecting THEN ScoresDelete(visibleScores, i)
       ELSE IF w < 80 \/ h < 80 THEN ScoresDelete(visibleScores, i)
       ELSE ScoresSet(visibleScores, i, w * h)
  /\ UNCHANGED <<images, site, pageRet>>
  /\ UNCHANGED notPage

Lost(imgs) == {i \in 1..Len(imgs) : ~imgs[i].isConnected \/ imgs[i].src # "http"}

\* The page takes an image out of the document, or swaps its src for a
\* placeholder or drops it (the reader's own scripts); one image of the page
\* is changed, once
DomChange(i, what) ==
  /\ pageRet = NoRet
  /\ i \in 1..Len(images)
  /\ Lost(images) = {}
  /\ images' = [images EXCEPT ![i] =
                  CASE what = "detach" -> [@ EXCEPT !.isConnected = FALSE]
                    [] what = "placeholder" -> [@ EXCEPT !.src = "empty"]
                    [] OTHER -> [@ EXCEPT !.src = ""]]
  /\ UNCHANGED <<site, visibleScores, pageRet>>
  /\ UNCHANGED notPage

\* content.js:1283  processOnce asks for the panel in view
FindBest ==
  /\ pageRet = NoRet
  /\ LET found == findBestVisibleImage(images, visibleScores, site)
     IN  /\ pageRet' = [op |-> "best", cur |-> 0, n |-> 0,
                        ret |-> IF found.best = 0 THEN <<>> ELSE <<found.best>>,
                        before |-> visibleScores]
         /\ visibleScores' = found.scores
  /\ UNCHANGED <<images, site>>
  /\ UNCHANGED notPage

\* A viewport with small images in it: one in the centre, one in the lower
\* right corner that was wider when the observer last saw it, and a panel
\* scrolling in from below.  seenW x seenH is the intersection rect the
\* observer reports for the image.
ViewKinds ==
  { [left |-> 400, top |-> 400, width |-> 200, height |-> 200, seenW |-> 200, seenH |-> 200],
    [left |-> 800, top |-> 800, width |-> 200, height |-> 200, seenW |-> 250, seenH |-> 200],
    [left |-> 200, top |-> 600, width |-> 600, height |-> 800, seenW |-> 600, seenH |-> 400] }

ViewImage(k) ==
  [left |-> k.left, top |-> k.top, width |-> k.width, height |-> k.height,
   naturalWidth |-> k.width, naturalHeight |-> k.height,
   src |-> "http", dataSrc |-> "http", isConnected |-> TRUE, muUpscaled |-> FALSE,
   seenW |-> k.seenW, seenH |-> k.seenH]

InitView ==
  /\ \E kinds \in [1..MaxImages -> ViewKinds] :
       images = [i \in 1..MaxImages |-> ViewImage(kinds[i])]
  /\ site \in {"other", "comix"}
  /\ visibleScores = <<>>
  /\ pageRet = NoRet

NextView ==
  \/ \E i \in 1..MaxImages, isIntersecting \in BOOLEAN, small \in BOOLEAN :
       OnIntersection(i, isIntersecting,
                      IF small THEN 50 ELSE images[i].seenW,
                      IF small THEN 50 ELSE images[i].seenH)
  \/ \E i \in 1..MaxImages, what \in {"detach", "placeholder", "nosrc"} : DomChange(i, what)
  \/ FindBest

-----------------------------------------------------------------------------
(* The images' own state and the calls that work on them: content.js 765-809,
   1050-1072, 1125-1163, 1165-1260, 1262-1339, 1453-1485.  Here an image is
   its dataset (muUpscaled, muOriginalSrc, muFailUntil with 0 for absent);
   every image has a usable network URL, stands in the candidate window of
   every other, and no preload of it is remembered.  A call is a
   processOnce past its busy check (by "cycle") or an ENHANCE_IMAGE_URL
   handler (by "menu"); pc says what it awaits: the response to
   FETCH_AI_ENHANCE for its image ("enhance"), the enhanced image being put
   on the page ("render"), or the enhanced blob of a preload candidate
   ("preload").  The failure count and the burst limit are left to the
   cooldown's specifications: aiHostDownUntil is read, not written. *)

\* content.js:1246  the backoff after a failure, longer when decoding failed
FAIL_BACKOFF_MS == 15000

FAIL_BACKOFF_DECODE_MS == 60000

NoData == [muUpscaled |-> FALSE, muOriginalSrc |-> FALSE, muFailUntil |-> 0]

\* an image that is never passed over
SkipsImage_Never(d, t) == FALSE

\* content.js:1167-1174  processImageElement returns at once
SkipsImage(d, t) == (d.muFailUntil # 0 /\ t < d.muFailUntil) \/ d.muUpscaled

\* content.js:765-795
restoreImg(d) == [d EXCEPT !.muUpscaled = FALSE]

\* content.js:797-809
restoreAllUpscaledImages(ds) ==
  [i \in DOMAIN ds |->
     IF ds[i].muUpscaled \/ ds[i].muOriginalSrc
       THEN [restoreImg(ds[i]) EXCEPT !.muFailUntil = 0]
       ELSE ds[i]]

\* a failure that leaves the image as it was
ProcessFailed_NoBackoff(d, t, decode) == d

\* content.js:1240-1249  the catch of processImageElement
ProcessFailed(d, t, decode) ==
  [restoreImg(d) EXCEPT !.muFailUntil =
     t + (IF decode THEN FAIL_BACKOFF_DECODE_MS ELSE FAIL_BACKOFF_MS)]

\* content.js:745, 1255  the enhanced image is shown and the image marked
MarkUpscaled(d) == [d EXCEPT !.muUpscaled = TRUE, !.muOriginalSrc = TRUE]

\* content.js:1021-1034, 1041  the candidates after img: the other images not
\* yet upscaled, in document order, at most n
CandidatesAfter(ds, img, n) ==
  TakeFirst(SelectSeq([i \in 1..MaxItems |-> i],
                      LAMBDA i : i # img /\ ~ds[i].muUpscaled), n)

\* The calls at work are a bag: two handlers may stand at the same place.
One(c) == SetToBag({c})

CallsWhere(cs, P(_)) == BagCardinality([c \in {d \in DOMAIN cs : P(d)} |-> cs[c]])

\* requests to the backend that wait for their response, for image i
InFlight(cs, i) == CallsWhere(cs, LAMBDA c : c.img = i /\ c.pc \in {"enhance", "preload"})

NoEvent == [ev |-> "none", by |-> "none", img |-> 0, at |-> 0, failUntil |-> 0,
            decode |-> FALSE]

\* a busy flag that stops nothing
CycleBlocked_Never(b) == FALSE

\* content.js:1275  if (busy) return
CycleBlocked(b) == b

\* content.js:1288-1311, 1336-1338  the cycle c after its current image: the
\* preload loop goes to its next candidate (preloadAiForImage's gate, then the
\* request), or the cycle ends and busy is cleared.  rest are the other calls;
\* yields the calls and busy.
CycleGoesOn(rest, c, cands, t) ==
  IF cands = <<>> \/ IsCoolingDown(aiHostDownUntil, t)
    THEN [calls |-> rest, busy |-> FALSE]
    ELSE [calls |-> rest (+) One([c EXCEPT !.pc = "preload", !.img = Head(cands),
                                          !.left = Tail(cands)]),
          busy |-> TRUE]

\* content.js:1262-1289  processOnce(preload, showStatus) with img the panel
\* in view, up to its first await
CycleStart(img, preload, n) ==
  /\ enabled
  /\ ~IsCoolingDown(aiHostDownUntil, now)
  /\ LET ask == IF preload THEN n ELSE 0
         c == [by |-> "cycle", img |-> img, pc |-> "enhance", ask |-> ask,
               left |-> <<>>, retried |-> FALSE]
         go == CycleGoesOn(calls, c, CandidatesAfter(dataset, img, ask), now)
     IN  IF CycleBlocked(busy)
           THEN /\ UNCHANGED <<calls, busy>>
                /\ itLast' = [NoEvent EXCEPT !.ev = "blocked", !.at = now]
           ELSE /\ IF SkipsImage(dataset[img], now)
                     THEN calls' = go.calls /\ busy' = go.busy
                     ELSE calls' = calls (+) One(c) /\ busy' = TRUE
                /\ itLast' = [NoEvent EXCEPT !.ev = "cycle", !.img = img, !.at = now]
  /\ UNCHANGED <<now, enabled, dataset, stopAsked, itTicks>>
  /\ UNCHANGED notItems

\* content.js:1467-1485  ENHANCE_IMAGE_URL for the image img, up to the first
\* await of processImageElement.  The handler finds the image by the URL the
\* browser gave, which may be the image's own src and an empty base64 data
\* URL; usable says whether getBestImageUrl finds a source to send
\* (content.js:1170-1171).  An image shown upscaled has the source the render
\* gave it.
MenuEnhance(img, usable) ==
  /\ enabled
  /\ CallsWhere(calls, LAMBDA c : c.by = "menu") < MaxItemCalls
  /\ ~IsCoolingDown(aiHostDownUntil, now)
  /\ dataset[img].muUpscaled => usable
  /\ LET skips == SkipsImage(dataset[img], now)
     IN  /\ calls' = IF skips \/ ~usable THEN calls
                     ELSE calls (+) One([by |-> "menu", img |-> img, pc |-> "enhance",
                                         ask |-> 0, left |-> <<>>, retried |-> FALSE])
         /\ itLast' = IF ~skips /\ ~usable
                        THEN [NoEvent EXCEPT !.ev = "failed", !.by = "menu", !.img = img,
                                             !.at = now,
                                             !.failUntil = dataset[img].muFailUntil]
                        ELSE [NoEvent EXCEPT !.ev = "menu", !.img = img, !.at = now]
  /\ UNCHANGED <<now, enabled, dataset, busy, stopAsked, itTicks>>
  /\ UNCHANGED notItems

\* content.js:651-664, 1240-1249, 1324-1338, 1480-1483  the response to the
\* FETCH_AI_ENHANCE of call c arrives
CallResponse(c, ok) ==
  /\ c \in BagToSet(calls)
  /\ c.pc = "enhance"
  /\ IF ok
       THEN /\ calls' = (calls (-) One(c)) (+) One([c EXCEPT !.pc = "render"])
            /\ UNCHANGED <<dataset, busy>>
            /\ itLast' = [NoEvent EXCEPT !.ev = "response", !.by = c.by,
                                          !.img = c.img, !.at = now]
       ELSE /\ dataset' = [dataset EXCEPT ![c.img] = ProcessFailed(@, now, FALSE)]
            /\ calls' = calls (-) One(c)
            /\ busy' = IF c.by = "cycle" THEN FALSE ELSE busy
            /\ itLast' = [ev |-> "failed", by |-> c.by, img |-> c.img,
                          at |-> now, failUntil |-> dataset'[c.img].muFailUntil,
                          decode |-> FALSE]
  /\ UNCHANGED <<now, enabled, stopAsked, itTicks>>
  /\ UNCHANGED notItems

\* content.js:1196-1260, 1288-1311  the enhanced image of call c is put on the
\* page: it shows, it fails to load, it fails to decode, or its decoding fails
\* and PNG is asked for once (content.js:1225)
CallRendered(c, outcome) ==
  /\ c \in BagToSet(calls)
  /\ c.pc = "render"
  /\ outcome = "pngRetry" => ~c.retried /\ ~IsCoolingDown(aiHostDownUntil, now)
  /\ LET failed == outcome \in {"failed", "decodeFailed"}
         ds == CASE outcome = "applied" -> [dataset EXCEPT ![c.img] = MarkUpscaled(@)]
                 [] failed -> [dataset EXCEPT ![c.img] =
                                 ProcessFailed(@, now, outcome = "decodeFailed")]
                 [] OTHER -> dataset
         rest == calls (-) One(c)
         go == CycleGoesOn(rest, c, CandidatesAfter(ds, c.img, c.ask), now)
     IN  /\ dataset' = ds
         /\ CASE outcome = "pngRetry" ->
                   /\ calls' = rest (+) One([c EXCEPT !.pc = "enhance", !.retried = TRUE])
                   /\ busy' = busy
              [] c.by = "cycle" /\ outcome = "applied" ->
                   calls' = go.calls /\ busy' = go.busy
              [] OTHER ->
                   /\ calls' = rest
                   /\ busy' = IF c.by = "cycle" THEN FALSE ELSE busy
         /\ itLast' = [ev |-> IF failed THEN "failed" ELSE "rendered", by |-> c.by,
                       img |-> c.img, at |-> now, failUntil |-> ds[c.img].muFailUntil,
                       decode |-> outcome = "decodeFailed"]
  /\ UNCHANGED <<now, enabled, stopAsked, itTicks>>
  /\ UNCHANGED notItems

\* content.js:1072-1089, 1125-1163, 1296-1310  the enhanced blob of the
\* preload candidate of call c arrives or the fetch fails; a blob is cached
\* and, when the candidate is near the viewport, shown at once; a failure is
\* ignored
CallPreloaded(c, ok, shown) ==
  /\ c \in BagToSet(calls)
  /\ c.pc = "preload"
  /\ shown => ok
  /\ LET ds == IF shown THEN [dataset EXCEPT ![c.img] = MarkUpscaled(@)] ELSE dataset
         go == CycleGoesOn(calls (-) One(c), c, c.left, now)
     IN  /\ dataset' = ds
         /\ calls' = go.calls
         /\ busy' = go.busy
         /\ itLast' = [ev |-> IF ok THEN "preloaded" ELSE "failed", by |-> "preload",
                       img |-> c.img, at |-> now, failUntil |-> ds[c.img].muFailUntil,
                       decode |-> FALSE]
  /\ UNCHANGED <<now, enabled, stopAsked, itTicks>>
  /\ UNCHANGED notItems

\* content.js:1453-1463, 75-77  SETTINGS_UPDATED once loadSettings has
\* resolved; on says whether enhancement is enabled and the site allowed
SettingsUpdated(on) ==
  /\ enabled' = on
  /\ stopAsked' = IF on THEN stopAsked ELSE TRUE
  /\ dataset' = IF on THEN dataset ELSE restoreAllUpscaledImages(dataset)
  /\ itLast' = [NoEvent EXCEPT !.ev = "settings", !.at = now]
  /\ UNCHANGED <<now, calls, busy, itTicks>>
  /\ UNCHANGED notItems

\* Time passes: one backoff
ItemTick ==
  /\ itTicks < MaxItemTicks
  /\ itTicks' = itTicks + 1
  /\ now' = now + FAIL_BACKOFF_MS
  /\ UNCHANGED <<enabled, dataset, calls, busy, stopAsked, itLast>>
  /\ UNCHANGED notItems

\* content.js:10-20  the settings' defaults; no image touched yet
InitItems ==
  /\ enabled = TRUE
  /\ dataset = [i \in 1..MaxItems |-> NoData]
  /\ calls = EmptyBag
  /\ stopAsked = FALSE
  /\ itLast = NoEvent
  /\ itTicks = 0

NextItems ==
  \/ \E img \in 1..MaxItems, preload \in BOOLEAN, n \in 0..MaxCandidates :
       CycleStart(img, preload, n)
  \/ \E img \in 1..MaxItems, usable \in BOOLEAN : MenuEnhance(img, usable)
  \/ \E c \in BagToSet(calls) :
       \/ \E ok \in BOOLEAN : CallResponse(c, ok)
       \/ \E outcome \in {"applied", "failed", "decodeFailed", "pngRetry"} :
            CallRendered(c, outcome)
       \/ \E ok \in BOOLEAN, shown \in BOOLEAN : CallPreloaded(c, ok, shown)
  \/ \E on \in BOOLEAN : SettingsUpdated(on)
  \/ ItemTick

\* The cycles and one context-menu call at a time: settings and clock stay
\* as they are
NextCycles ==
  \/ \E img \in 1..MaxItems, preload \in BOOLEAN, n \in 0..MaxCandidates :
       CycleStart(img, preload, n)
  \/ \E img \in 1..MaxItems, usable \in BOOLEAN :
       CallsWhere(calls, LAMBDA c : c.by = "menu") = 0 /\ MenuEnhance(img, usable)
  \/ \E c \in BagToSet(calls) :
       \/ \E ok \in BOOLEAN : CallResponse(c, ok)
       \/ \E outcome \in {"applied", "failed", "decodeFailed", "pngRetry"} :
            CallRendered(c, outcome)
       \/ \E ok \in BOOLEAN, shown \in BOOLEAN : CallPreloaded(c, ok, shown)

-----------------------------------------------------------------------------
(* Putting an enhanced image on the page: applyEnhancedCacheIfReady
   (content.js 1125-1163) for a preloaded blob and the rendering part of
   processImageElement (content.js 1196-1260) for a fresh one, on one <img>
   with an http source.  What the element shows is its src ("orig" the
   page's own, "blob" an object URL, "data" a data URL) and whether a canvas
   lies over it.  The cache is the enhanced-preload cache above, its keys
   made by getPreloadKeyForUrl.                                             *)

Scales == {2, 3}

Qualities == {"balanced", "fast"}

Clamp(v, lo, hi) == IF v < lo THEN lo ELSE IF v > hi THEN hi ELSE v

\* what the backend is asked for: the source, the scale, the quality, the format
Params(url, st) == <<url, Clamp(st.scale, 2, 4), st.quality, "webp">>

\* a key made of the source only
getPreloadKeyForUrl_UrlOnly(url, st) == <<url>>

\* content.js:834-839  `${url}::s=${scale}::q=${quality}::f=${format}`
getPreloadKeyForUrl(url, st) == <<url, "s", Clamp(st.scale, 2, 4), "q", st.quality, "f", "webp">>

\* content.js:722-763  replaceImgSrc: the original src is remembered once
replaceImgSrc(e, src) == [e EXCEPT !.src = src, !.muOriginalSrc = TRUE]

\* content.js:765-795  restoreImg on the element: the remembered src is put
\* back and muUpscaled deleted
RestoreImgDisplay(e) ==
  [e EXCEPT !.src = IF e.muOriginalSrc THEN "orig" ELSE @, !.muUpscaled = FALSE]

\* content.js:176-192
clearCanvasOverlay(e) == [e EXCEPT !.overlay = FALSE]

\* content.js:1135-1136, 875-877, 906-916  prefetchUrl and touchPagePreload
HintPageLoad(e) == [e EXCEPT !.eager = TRUE, !.prefetched = TRUE]

\* a PNG asked for after every failure of the overlay
AsksPng_Always(why) == TRUE

\* content.js:1223-1224  msg.includes('AI image decode failed')
AsksPng(why) == why = "decode"

ApIdle == [pc |-> "idle", kind |-> "none", objUrl |-> FALSE, force |-> FALSE,
           near |-> FALSE, want |-> <<>>, made |-> <<>>, fresh |-> FALSE,
           tried |-> <<>>, why |-> "none"]

NoApply == [kind |-> "none", res |-> "none", hinted |-> FALSE, tried |-> <<>>]

\* content.js:1125-1149  applyEnhancedCacheIfReady(imgEl, {force}) up to its
\* first await; near is isNearViewport(imgEl)
ApplyEnhancedCacheIfReady(force, near) ==
  /\ ap.pc = "idle"
  /\ apOps < MaxApplyOps
  /\ apOps' = apOps + 1
  /\ LET key == getPreloadKeyForUrl(el.url, settings)
         r == EvictEnhancedPreloadIfNeeded(enhancedPreloadCache,
                                           enhancedPreloadTotalBytes, now)
         i == IndexOfKey(r.cache, key)
         res == IF el.muUpscaled THEN "done"
                ELSE IF i = 0 THEN "noEntry"
                ELSE IF ~force /\ ~near THEN "far" ELSE "began"
     IN  /\ IF el.muUpscaled
              THEN UNCHANGED <<enhancedPreloadCache, enhancedPreloadTotalBytes,
                               cacheRet, evictLog, evictSnaps>>
              ELSE GetEnhancedPreloadEntry(key, now)
         /\ el' = CASE res = "far" -> HintPageLoad(el)
                    [] res = "began" -> replaceImgSrc(HintPageLoad(el), "blob")
                    [] OTHER -> el
         /\ ap' = IF res = "began"
                    THEN [ApIdle EXCEPT !.pc = "waitBlob", !.kind = "preloaded",
                                        !.objUrl = TRUE, !.force = force, !.near = near,
                                        !.want = Params(el.url, settings),
                                        !.made = made[key],
                                        !.fresh = (now - r.cache[i].createdAt
                                                     <= ENHANCED_PRELOAD_TTL_MS),
                                        !.tried = <<"a">>]
                    ELSE ap
         /\ apLast' = [kind |-> "preloaded", res |-> res,
                       hinted |-> res \in {"far", "began"}, tried |-> <<>>]
  /\ UNCHANGED <<now, settings, made>>
  /\ UNCHANGED notApply

\* content.js:1189-1207  processImageElement has the enhanced image from
\* enhanceViaHost, as an object URL of a blob or as a data URL, and sets it
ProcessImageRender(objUrl) ==
  /\ ap.pc = "idle"
  /\ ~el.muUpscaled
  /\ apOps < MaxApplyOps
  /\ apOps' = apOps + 1
  /\ el' = replaceImgSrc(el, IF objUrl THEN "blob" ELSE "data")
  /\ ap' = [ApIdle EXCEPT !.pc = "waitBlob", !.kind = "process", !.objUrl = objUrl,
                          !.tried = <<"a">>]
  /\ apLast' = [NoApply EXCEPT !.kind = "process", !.res = "began"]
  /\ UNCHANGED <<now, settings, made, cacheData>>
  /\ UNCHANGED notApply

\* the handler returns: the image is marked (content.js:1160, 1255)
ApplyDone(e) ==
  /\ el' = [e EXCEPT !.muUpscaled = TRUE]
  /\ ap' = ApIdle
  /\ apLast' = [kind |-> ap.kind, res |-> "applied", hinted |-> apLast.hinted,
                tried |-> ap.tried]

\* the handler throws.  content.js:1240-1250: processImageElement restores
\* the image and clears the overlay; applyEnhancedCacheIfReady has no catch
\* around its last step (1155-1157)
ApplyThrows ==
  /\ el' = IF ap.kind = "process" THEN clearCanvasOverlay(RestoreImgDisplay(el)) ELSE el
  /\ ap' = ApIdle
  /\ apLast' = [kind |-> ap.kind, res |-> "failed", hinted |-> apLast.hinted,
                tried |-> ap.tried]

\* the handler goes on to its next step
ApplyGoesTo(e, pc, strategy, why) ==
  /\ el' = e
  /\ ap' = [ap EXCEPT !.pc = pc, !.why = why,
                      !.tried = IF strategy = "" THEN @ ELSE Append(@, strategy)]
  /\ apLast' = apLast

\* content.js:1143-1158, 1196-1239  what the handler awaits settles: the
\* image loads ("ok") or not ("fail"), the data URL is made or not, the
\* overlay is drawn, cannot be drawn ("fail") or its blob cannot be decoded
\* ("decode"), the PNG arrives or not
ApplySettles(outcome) ==
  /\ ap.pc # "idle"
  /\ outcome = "decode" => ap.pc \in {"overlay", "overlayPng"}
  /\ CASE ap.pc = "waitBlob" ->
            IF outcome = "ok" THEN ApplyDone(el)
            ELSE IF ap.objUrl THEN ApplyGoesTo(RestoreImgDisplay(el), "encode", "b", "load")
            ELSE ApplyThrows
       [] ap.pc = "encode" ->
            IF outcome = "ok" THEN ApplyGoesTo(replaceImgSrc(el, "data"), "waitData", "", "none")
            ELSE ApplyGoesTo(el, "overlay", "c", "encode")
       [] ap.pc = "waitData" ->
            IF outcome = "ok" THEN ApplyDone(el)
            ELSE ApplyGoesTo(el, "overlay", "c", "load")
       [] ap.pc = "overlay" ->
            IF outcome = "ok" THEN ApplyDone([el EXCEPT !.overlay = TRUE])
            ELSE IF ap.kind = "process" /\ AsksPng(outcome)
              THEN ApplyGoesTo(el, "pngFetch", "png", outcome)
            ELSE ApplyThrows
       [] ap.pc = "pngFetch" ->
            IF outcome = "ok" THEN ApplyGoesTo(el, "overlayPng", "c", "none")
            ELSE ApplyThrows
       [] ap.pc = "overlayPng" ->
            IF outcome = "ok" THEN ApplyDone([el EXCEPT !.overlay = TRUE])
            ELSE ApplyThrows
  /\ UNCHANGED <<now, settings, made, apOps, cacheData>>
  /\ UNCHANGED notApply

\* content.js:1072-1088  a preload of the source url, begun when the settings
\* were st, stores its blob
PreloadStored(url, st, size) ==
  /\ apOps < MaxApplyOps
  /\ apOps' = apOps + 1
  /\ LET key == getPreloadKeyForUrl(url, st) IN
       /\ PutEnhancedPreloadEntry(key, size, now)
       /\ made' = [k \in DOMAIN made \cup {key} |->
                     IF k = key THEN Params(url, st) ELSE made[k]]
  /\ UNCHANGED <<now, settings, el, ap, apLast>>
  /\ UNCHANGED notApply

\* content.js:1453-1463, 63  the settings change
SettingsChange(st) ==
  /\ apOps < MaxApplyOps
  /\ apOps' = apOps + 1
  /\ st # settings
  /\ settings' = st
  /\ UNCHANGED <<now, el, ap, apLast, made, cacheData>>
  /\ UNCHANGED notApply

\* the page gives the element another source
PageSetsSrc(url) ==
  /\ apOps < MaxApplyOps
  /\ apOps' = apOps + 1
  /\ ap.pc = "idle" /\ el.src = "orig" /\ url # el.url
  /\ el' = [el EXCEPT !.url = url, !.prefetched = FALSE]
  /\ UNCHANGED <<now, settings, ap, apLast, made, cacheData>>
  /\ UNCHANGED notApply

\* Time passes: more than the cache's TTL
ApplyTick ==
  /\ apOps < MaxApplyOps
  /\ apOps' = apOps + 1
  /\ now' = now + ENHANCED_PRELOAD_TTL_MS + 1
  /\ UNCHANGED <<settings, el, ap, apLast, made, cacheData>>
  /\ UNCHANGED notApply

\* content.js:10-20  the default settings; an image untouched
InitApply ==
  /\ settings = [scale |-> 3, quality |-> "balanced"]
  /\ el = [url |-> 1, src |-> "orig", overlay |-> FALSE, muUpscaled |-> FALSE,
           muOriginalSrc |-> FALSE, eager |-> FALSE, prefetched |-> FALSE]
  /\ ap = ApIdle
  /\ apLast = NoApply
  /\ made = [k \in {} |-> <<>>]
  /\ apOps = 0

NextApply ==
  \/ \E force \in BOOLEAN, near \in BOOLEAN : ApplyEnhancedCacheIfReady(force, near)
  \/ \E objUrl \in BOOLEAN : ProcessImageRender(objUrl)
  \/ \E outcome \in {"ok", "fail", "decode"} : ApplySettles(outcome)
  \/ \E url \in 1..MaxUrls, scale \in Scales, quality \in Qualities :
       PreloadStored(url, [scale |-> scale, quality |-> quality], 1)
  \/ \E scale \in Scales, quality \in Qualities :
       SettingsChange([scale |-> scale, quality |-> quality])
  \/ \E url \in 1..MaxUrls : PageSetsSrc(url)
  \/ ApplyTick

-----------------------------------------------------------------------------
(* The background script's message listener, background.js 320-566: one async
   function per message, its whole body inside try/catch, every branch ending
   in sendResponse.  A handler stands at the call it awaits; what the awaited
   call gives back is any outcome that call can have: startTray, stopTray,
   ensureHostRunning and stopNativeHost catch their own errors and resolve to
   a boolean (background.js:251-305), fetch() resolves to a response that is
   ok or not, or rejects, reading a body and chrome.action calls resolve or
   reject.                                                                  *)

\* how many messages the listener is called with
MaxMsgs == 1

\* background.js:323-558  the types the listener knows, and "other" for any
\* other message, one without a type included
MsgTypes ==
  {"FETCH_IMAGE_DATAURL", "HOST_START", "HOST_STOP", "TRAY_START", "TRAY_STOP",
   "FETCH_AI_ENHANCE", "AI_PRELOAD", "AI_STREAM_CHUNK", "AI_STREAM_CHUNK_B64",
   "AI_STREAM_DELETE", "AI_ENHANCE_URL", "HOST_CONFIG", "HOST_CLEAR_CACHE",
   "HOST_DOWNLOAD_MODELS", "BADGE_UP", "other"}

\* the commands passed on to the process supervisor
SupervisorCmds == {"HOST_START", "HOST_STOP", "TRAY_START", "TRAY_STOP"}

\* the handlers that ask the host again after a failure to reach it
RetryingTypes == {"FETCH_AI_ENHANCE", "AI_PRELOAD"}

\* what of a message the handler's synchronous checks look at
ArgsOf(type) ==
  CASE type \in {"FETCH_IMAGE_DATAURL", "AI_PRELOAD", "AI_ENHANCE_URL"} -> {"good", "missing"}
    [] type = "FETCH_AI_ENHANCE" -> {"url", "data", "badData"}
    [] type \in {"AI_STREAM_CHUNK", "AI_STREAM_CHUNK_B64"} ->
         {"good", "unknown", "badIndex", "noChunk"}
    [] type = "BADGE_UP" -> {"good", "noTab"}
    [] OTHER -> {"good"}

\* a response without an error field
OkTrue == [ok |-> TRUE, error |-> ""]

NewMsg(type, arg) ==
  [type |-> type, arg |-> arg, pc |-> "recv", ok |-> FALSE, retried |-> FALSE,
   thrown |-> "", replies |-> <<>>]

\* sendResponse(r), the handler's last statement on every path
SendResponse(h, r) == [h EXCEPT !.pc = "done", !.replies = Append(@, r)]

GoTo(h, pc) == [h EXCEPT !.pc = pc]

\* a catch block that lets the error go on
Catch_Rethrows(h, text) == [h EXCEPT !.pc = "escaped", !.thrown = text]

\* background.js:562-564  catch (e) { sendResponse({ ok: false, error: ... }) }
Catch(h, text) ==
  SendResponse([h EXCEPT !.thrown = text], [ok |-> FALSE, error |-> text])

\* background.js:375-381, 577-589  doFetch: with a data URL and no source URL
\* the bytes are posted, and dataUrlToBytes throws an Error that is no
\* communication error; otherwise the request leaves
ListenerDoFetch(h) ==
  IF h.type = "FETCH_AI_ENHANCE" /\ h.arg = "badData"
  THEN Catch(h, "Invalid data URL")
  ELSE GoTo(h, "fetch")

\* background.js:323-560  the handler up to its first await
Dispatch(h) ==
  CASE h.type = "FETCH_IMAGE_DATAURL" ->
         IF h.arg = "missing" THEN Catch(h, "No url") ELSE GoTo(h, "fetch")
    [] h.type \in {"HOST_START", "TRAY_START"} -> GoTo(h, "startTray")
    [] h.type \in {"HOST_STOP", "TRAY_STOP"} -> GoTo(h, "stopNativeHost")
    [] h.type \in {"AI_PRELOAD", "AI_ENHANCE_URL"} ->
         IF h.arg = "missing" THEN Catch(h, "Missing sourceUrl") ELSE GoTo(h, "ensure")
    [] h.type \in {"FETCH_AI_ENHANCE", "HOST_CONFIG", "HOST_CLEAR_CACHE",
                   "HOST_DOWNLOAD_MODELS"} -> GoTo(h, "ensure")
    [] h.type \in {"AI_STREAM_CHUNK", "AI_STREAM_CHUNK_B64"} ->
         CASE h.arg = "unknown" -> Catch(h, "Unknown stream")
           [] h.arg = "badIndex" -> Catch(h, "Invalid chunk index")
           [] h.arg = "noChunk" -> Catch(h, "Chunk not found")
           [] OTHER -> SendResponse(h, OkTrue)
    [] h.type = "AI_STREAM_DELETE" -> SendResponse(h, OkTrue)
    [] h.type = "BADGE_UP" ->
         IF h.arg = "noTab" THEN SendResponse(h, OkTrue) ELSE GoTo(h, "badge1")
    [] OTHER -> SendResponse(h, [ok |-> FALSE, error |-> "Unknown message"])

\* what the call a handler awaits can give back
OutcomesAt(pc) ==
  CASE pc \in {"startTray", "stopTray", "stopNativeHost", "ensure", "ensure2"} ->
         {"true", "false"}
    [] pc = "fetch" -> {"true", "false", "threw"}
    [] pc \in {"body", "arrayBuffer", "dataUrl", "drain", "badge1", "badge2"} ->
         {"true", "threw"}
    [] OTHER -> {}

\* background.js:323-560  the handler from the call it awaited to the next
\* await or to its response
Resume(h, outcome) ==
  CASE h.pc = "startTray" -> GoTo([h EXCEPT !.ok = (outcome = "true")], "ensure")
    [] h.pc = "stopNativeHost" ->
         IF h.type \in RetryingTypes THEN GoTo(h, "ensure2") ELSE GoTo(h, "stopTray")
    [] h.pc = "stopTray" -> SendResponse(h, [ok |-> outcome = "true", error |-> ""])
    [] h.pc = "ensure" ->
         CASE h.type = "HOST_START" ->
                SendResponse(h, [ok |-> outcome = "true", error |-> ""])
           [] h.type = "TRAY_START" -> SendResponse(h, [ok |-> h.ok, error |-> ""])
           [] outcome = "false" -> Catch(h, "AI host not running")
           [] h.type = "AI_ENHANCE_URL" -> SendResponse(h, OkTrue)
           [] OTHER -> ListenerDoFetch(h)
    [] h.pc = "ensure2" -> GoTo(h, "fetch")
    [] h.pc = "fetch" ->
         CASE outcome = "threw" ->
                IF h.type \in RetryingTypes /\ ~h.retried
                THEN GoTo([h EXCEPT !.retried = TRUE], "stopNativeHost")
                ELSE Catch(h, "Failed to fetch")
           [] outcome = "false" -> Catch(h, "HTTP")
           [] h.type \in {"FETCH_IMAGE_DATAURL", "FETCH_AI_ENHANCE"} -> GoTo(h, "body")
           [] h.type = "AI_PRELOAD" -> GoTo(h, "drain")
           [] OTHER -> SendResponse(h, OkTrue)
    [] h.pc = "body" ->
         CASE outcome = "threw" -> Catch(h, "body")
           [] h.type = "FETCH_IMAGE_DATAURL" -> GoTo(h, "dataUrl")
           [] OTHER -> GoTo(h, "arrayBuffer")
    [] h.pc = "arrayBuffer" ->
         IF outcome = "threw" THEN Catch(h, "body") ELSE SendResponse(h, OkTrue)
    [] h.pc = "dataUrl" ->
         IF outcome = "threw" THEN Catch(h, "read") ELSE SendResponse(h, OkTrue)
    [] h.pc = "drain" -> SendResponse(h, OkTrue)
    [] h.pc = "badge1" ->
         IF outcome = "threw" THEN Catch(h, "badge") ELSE GoTo(h, "badge2")
    [] h.pc = "badge2" ->
         IF outcome = "threw" THEN Catch(h, "badge") ELSE SendResponse(h, OkTrue)
    [] OTHER -> h

\* background.js:320-322  the listener is called with a message
OnMessage(type, arg) ==
  /\ Len(inbox) < MaxMsgs
  /\ inbox' = Append(inbox, Dispatch(NewMsg(type, arg)))
  /\ UNCHANGED notListener

\* the call that handler k awaits settles
AwaitSettles(k, outcome) ==
  /\ k \in 1..Len(inbox)
  /\ outcome \in OutcomesAt(inbox[k].pc)
  /\ inbox' = [inbox EXCEPT ![k] = Resume(@, outcome)]
  /\ UNCHANGED notListener

\* background.js:320  no message has arrived
InitListener == inbox = <<>>

NextListener ==
  \/ \E type \in MsgTypes : \E arg \in ArgsOf(type) : OnMessage(type, arg)
  \/ \E k \in 1..Len(inbox), outcome \in {"true", "false", "threw"} : AwaitSettles(k, outcome)

\* every call a handler awaits settles
FairListener ==
  \A k \in 1..MaxMsgs : WF_vars(\E outcome \in {"true", "false", "threw"} : AwaitSettles(k, outcome))

-----------------------------------------------------------------------------
(* The awaits of one call of processOnce, content.js 1262-1339, in the order
   the code reaches them: the backend request for the panel in view, the
   chain that puts the result on the page (setAndWait with the blob URL,
   blobToDataURL, setAndWait with the data URL, renderBlobOverImage, the PNG
   request and its overlay), then for each preload candidate the request and
   applyEnhancedCacheIfReady, then applyEnhancedCacheIfReady for each
   candidate once more.  What the cooldown, the cache and the page make of
   these steps is modelled above; here each await is a step of its own, and
   waitForImageLoad is modelled with its timer, its listeners and its done
   flag.  The load and error events of the page may never come.            *)

\* content.js:1198, 1145  waitForImageLoad(imgEl, 20000)
SET_AND_WAIT_TIMEOUT_MS == 20000

CycIdle ==
  [pc |-> "idle", stage |-> "none", preload |-> FALSE, n |-> 0, left |-> 0, isObj |-> FALSE]

NoWait ==
  [phase |-> "none", done |-> FALSE, timer |-> FALSE, listeners |-> FALSE, check |-> FALSE,
   settles |-> 0, by |-> "none", timeoutMs |-> 0]

\* a wait with no timer behind it
WaitForImageLoad_NoTimer(timeoutMs) ==
  [phase |-> "pending", done |-> FALSE, timer |-> FALSE, listeners |-> TRUE, check |-> TRUE,
   settles |-> 0, by |-> "none", timeoutMs |-> timeoutMs]

\* content.js:262-306  waitForImageLoad(imgEl, timeoutMs) as it returns: the
\* timer set, the two listeners added, the check of imgEl.complete queued
WaitForImageLoad(timeoutMs) ==
  [phase |-> "pending", done |-> FALSE, timer |-> TRUE, listeners |-> TRUE, check |-> TRUE,
   settles |-> 0, by |-> "none", timeoutMs |-> timeoutMs]

\* content.js:292-296
cleanup(w) == [w EXCEPT !.timer = FALSE, !.listeners = FALSE]

\* content.js:267-272  finishOk, called by the load event or the check
finishOk(w, by) ==
  IF w.done THEN w
  ELSE [cleanup(w) EXCEPT !.done = TRUE, !.phase = "settled", !.settles = @ + 1, !.by = by]

\* content.js:273-291  finishErr, called by the error event or the timer
finishErr(w, by) ==
  IF w.done THEN w
  ELSE [cleanup(w) EXCEPT !.done = TRUE, !.phase = "settled", !.settles = @ + 1, !.by = by]

Resolved(w) == w.by \in {"load", "complete"}

\* content.js:299  the page fires load on the image
LoadEvent ==
  /\ wait.listeners
  /\ wait' = finishOk(wait, "load")
  /\ UNCHANGED <<busy, cyc>>
  /\ UNCHANGED notAwait

\* content.js:300  the page fires error on the image
ErrorEvent ==
  /\ wait.listeners
  /\ wait' = finishErr(wait, "error")
  /\ UNCHANGED <<busy, cyc>>
  /\ UNCHANGED notAwait

\* content.js:298  the timer of timeoutMs fires
WaitTimeout ==
  /\ wait.timer
  /\ wait' = finishErr([wait EXCEPT !.timer = FALSE], "timeout")
  /\ UNCHANGED <<busy, cyc>>
  /\ UNCHANGED notAwait

\* content.js:302-304  the queued check runs: the image is complete, or not
CompleteCheck(complete) ==
  /\ wait.check
  /\ wait' = IF complete THEN finishOk([wait EXCEPT !.check = FALSE], "complete")
             ELSE [wait EXCEPT !.check = FALSE]
  /\ UNCHANGED <<busy, cyc>>
  /\ UNCHANGED notAwait

\* content.js:1313-1322  the loop that applies what is cached for the
\* candidates, or the end of the cycle
StartNear(c) ==
  IF c.n = 0 THEN CycIdle ELSE [c EXCEPT !.stage = "near", !.left = c.n, !.pc = "apply"]

\* content.js:1290-1311, 1316-1321  the loop goes on with its next item
NextItem(c) ==
  CASE c.stage = "current" ->
         IF c.preload /\ c.n > 0
         THEN [c EXCEPT !.stage = "next", !.left = c.n, !.pc = "preloadFetch"]
         ELSE StartNear(c)
    [] c.stage = "next" ->
         IF c.left > 1 THEN [c EXCEPT !.left = @ - 1, !.pc = "preloadFetch"]
         ELSE StartNear(c)
    [] OTHER ->
         IF c.left > 1 THEN [c EXCEPT !.left = @ - 1, !.pc = "apply"] ELSE CycIdle

\* content.js:1287-1288  the panel in view is done; the burst limit of auto
\* mode may end the cycle here
ItemDone(c, limited) ==
  IF c.stage = "current" /\ limited THEN CycIdle ELSE NextItem(c)

\* content.js:1240-1250, 1324-1338 and 1297, 1321: what processImageElement
\* throws ends the cycle, what applyEnhancedCacheIfReady throws is dropped
ChainFails(c) == IF c.stage = "current" THEN CycIdle ELSE NextItem(c)

\* every action of the cycle: busy is set from the start of processOnce to
\* its finally
CycleGoes(c) ==
  /\ cyc' = c
  /\ busy' = (c.pc # "idle")

\* content.js:1274-1288  processOnce past its gates, an image found, with n
\* candidates after it; item says whether processImageElement has to ask
CycleStarts(preload, item, n) ==
  /\ ~busy /\ cyc.pc = "idle"
  /\ LET c == [CycIdle EXCEPT !.stage = "current", !.preload = preload, !.n = n] IN
       CycleGoes(IF item = "skip" THEN NextItem(c) ELSE [c EXCEPT !.pc = "enhance"])
  /\ UNCHANGED wait
  /\ UNCHANGED notAwait

\* content.js:624-664, 1189, 1225, 1296  the background script answers a request
\* with a blob, with a data URL, or the request throws, 'AI host cooldown'
\* being one of the errors
BackendAnswers(outcome) ==
  /\ cyc.pc \in {"enhance", "pngFetch", "preloadFetch"}
  /\ outcome = "cooldown" => cyc.pc = "preloadFetch"
  /\ outcome = "data" => cyc.pc # "preloadFetch"
  /\ CASE cyc.pc = "enhance" ->
            IF outcome = "threw" THEN CycleGoes(CycIdle) /\ UNCHANGED wait
            ELSE /\ CycleGoes([cyc EXCEPT !.pc = "wait1", !.isObj = (outcome = "blob")])
                 /\ wait' = WaitForImageLoad(SET_AND_WAIT_TIMEOUT_MS)
       [] cyc.pc = "pngFetch" ->
            /\ CycleGoes(IF outcome = "blob" THEN [cyc EXCEPT !.pc = "overlayPng"]
                         ELSE ChainFails(cyc))
            /\ UNCHANGED wait
       [] OTHER ->
            /\ CycleGoes(CASE outcome = "cooldown" -> CycIdle
                           [] outcome = "threw" -> NextItem(cyc)
                           [] OTHER -> [cyc EXCEPT !.pc = "apply"])
            /\ UNCHANGED wait
  /\ UNCHANGED notAwait

\* content.js:1125-1149, 1297, 1321  applyEnhancedCacheIfReady(ni): it returns at once, or
\* it swaps in the cached blob and waits
ApplyCall(swap) ==
  /\ cyc.pc = "apply"
  /\ IF swap
     THEN /\ CycleGoes([cyc EXCEPT !.pc = "wait1", !.isObj = TRUE])
          /\ wait' = WaitForImageLoad(SET_AND_WAIT_TIMEOUT_MS)
     ELSE CycleGoes(NextItem(cyc)) /\ UNCHANGED wait
  /\ UNCHANGED notAwait

\* content.js:1201-1237, 1148-1152  the awaited wait has settled and the caller
\* goes on
WaitResumes(limited) ==
  /\ cyc.pc \in {"wait1", "wait2"}
  /\ wait.phase = "settled"
  /\ CycleGoes(CASE Resolved(wait) -> ItemDone(cyc, limited)
                 [] cyc.pc = "wait2" -> [cyc EXCEPT !.pc = "overlay"]
                 [] cyc.stage = "current" /\ ~cyc.isObj -> ChainFails(cyc)
                 [] OTHER -> [cyc EXCEPT !.pc = "dataUrl"])
  /\ wait' = NoWait
  /\ UNCHANGED notAwait

\* content.js:1210-1215, 1153-1154  blobToDataURL settles
Encoded(ok) ==
  /\ cyc.pc = "dataUrl"
  /\ IF ok
     THEN /\ CycleGoes([cyc EXCEPT !.pc = "wait2"])
          /\ wait' = WaitForImageLoad(SET_AND_WAIT_TIMEOUT_MS)
     ELSE CycleGoes([cyc EXCEPT !.pc = "overlay"]) /\ UNCHANGED wait
  /\ UNCHANGED notAwait

\* content.js:1216-1234, 1155-1156  renderBlobOverImage settles
OverlayDone(outcome, limited) ==
  /\ cyc.pc \in {"overlay", "overlayPng"}
  /\ CycleGoes(CASE outcome = "ok" -> ItemDone(cyc, limited)
                 [] outcome = "decode" /\ cyc.pc = "overlay" /\ cyc.stage = "current" ->
                      [cyc EXCEPT !.pc = "pngFetch"]
                 [] OTHER -> ChainFails(cyc))
  /\ UNCHANGED wait
  /\ UNCHANGED notAwait

\* content.js:36  busy = false, and no call of processOnce
InitAwait ==
  /\ cyc = CycIdle
  /\ wait = NoWait

NextAwait ==
  \/ \E preload \in BOOLEAN, item \in {"skip", "fresh"}, n \in 0..MaxBatch :
       CycleStarts(preload, item, n)
  \/ \E outcome \in {"blob", "data", "threw", "cooldown"} : BackendAnswers(outcome)
  \/ \E swap \in BOOLEAN : ApplyCall(swap)
  \/ \E limited \in BOOLEAN : WaitResumes(limited)
  \/ \E ok \in BOOLEAN : Encoded(ok)
  \/ \E outcome \in {"ok", "fail", "decode"}, limited \in BOOLEAN : OverlayDone(outcome, limited)
  \/ LoadEvent
  \/ ErrorEvent
  \/ WaitTimeout
  \/ \E complete \in BOOLEAN : CompleteCheck(complete)

\* a timer that is set fires, a request is answered, and a function whose
\* awaited promise has settled goes on
FairAwait ==
  /\ WF_vars(WaitTimeout)
  /\ WF_vars(\E outcome \in {"blob", "data", "threw", "cooldown"} : BackendAnswers(outcome))
  /\ WF_vars(\E swap \in BOOLEAN : ApplyCall(swap))
  /\ WF_vars(\E limited \in BOOLEAN : WaitResumes(limited))
  /\ WF_vars(\E ok \in BOOLEAN : Encoded(ok))
  /\ WF_vars(\E outcome \in {"ok", "fail", "decode"}, limited \in BOOLEAN :
               OverlayDone(outcome, limited))

-----------------------------------------------------------------------------
(* The background script's FETCH_AI_ENHANCE handler: one request to the local
   AI host, and one more after a restart when the first one could not reach
   it.  Starting and stopping the host is modelled in detail above; here
   ensureHostRunning and stopNativeHost are awaited steps whose outcome is
   any the host allows.  The stream that a good response is stored as is the
   subject of the stream store above.                                       *)

\* What doFetch can throw: fetch() rejects with a TypeError when the server
\* cannot be reached, dataUrlToBytes throws an Error for a malformed data URL.
FailedToFetch == [typeError |-> TRUE, msg |-> "Failed to fetch"]
InvalidDataUrl == [typeError |-> FALSE, msg |-> "Invalid data URL"]

\* background.js:312-316  the texts that msg.includes() looks for
CommTexts == {"Failed to fetch", "NetworkError", "ECONNREFUSED", "ERR_CONNECTION",
              "ERR_FAILED"}

\* every error is taken for a communication error
isCommError_Always(err) == TRUE

\* background.js:307-318
isCommError(err) == err.typeError \/ err.msg \in CommTexts

\* background.js:364-366  a handler as the message arrives; what says whether
\* the message carries a source URL, a data URL or a malformed data URL
NewFetch(what) ==
  [pc |-> "ensure", what |-> what, requests |-> 0, stops |-> 0, ensures |-> 0,
   thrown |-> <<>>, reply |-> "none"]

\* background.js:88-89  the listener's catch answers with the error's message
Failed(h, text) == [h EXCEPT !.pc = "done", !.reply = text]

\* background.js:383-394  what the handler does with an error of doFetch: the
\* first call is inside the try, the second is not
OnThrow(h, err) ==
  IF Len(h.thrown) = 0 /\ isCommError(err)
  THEN [h EXCEPT !.pc = "stop", !.thrown = <<err>>]
  ELSE Failed([h EXCEPT !.thrown = Append(@, err)], err.msg)

\* background.js:375-381  doFetch: the request leaves, unless the data URL
\* cannot be decoded
DoFetch(h) ==
  IF h.what = "badData" THEN OnThrow(h, InvalidDataUrl)
  ELSE [h EXCEPT !.pc = "fetch", !.requests = @ + 1]

\* background.js:364  the message arrives
FetchAiEnhance(what) ==
  /\ Len(fetches) < MaxEnhanceMsgs
  /\ fetches' = Append(fetches, NewFetch(what))
  /\ UNCHANGED serverUp
  /\ UNCHANGED notEnhance

\* background.js:367, 390  ensureHostRunning returns: the answer of the first
\* call decides, the answer of the call before the retry is not looked at
EnsureReturned(k, result, up) ==
  /\ fetches[k].pc = "ensure"
  /\ ~result => ~up
  /\ serverUp' = up
  /\ LET h == [fetches[k] EXCEPT !.ensures = @ + 1] IN
       fetches' = [fetches EXCEPT ![k] =
                     IF Len(h.thrown) = 0 /\ ~result
                     THEN Failed(h, "AI host not running")
                     ELSE DoFetch(h)]
  /\ UNCHANGED notEnhance

\* background.js:384-397  the request is answered, or fetch() rejects
FetchSettled(k, outcome) ==
  /\ fetches[k].pc = "fetch"
  /\ outcome # "threw" => serverUp
  /\ fetches' = [fetches EXCEPT ![k] =
                   CASE outcome = "ok" -> [@ EXCEPT !.pc = "done", !.reply = "stream"]
                     [] outcome = "http" -> Failed(@, "HTTP")
                     [] outcome = "threw" -> OnThrow(@, FailedToFetch)]
  /\ UNCHANGED serverUp
  /\ UNCHANGED notEnhance

\* background.js:389, 282-295  stopNativeHost returns, whether or not the host
\* went down
StopReturned(k, up) ==
  /\ fetches[k].pc = "stop"
  /\ up => serverUp
  /\ serverUp' = up
  /\ fetches' = [fetches EXCEPT ![k] = [@ EXCEPT !.pc = "ensure", !.stops = @ + 1]]
  /\ UNCHANGED notEnhance

\* the host process dies
ServerDies ==
  /\ serverUp
  /\ serverUp' = FALSE
  /\ UNCHANGED fetches
  /\ UNCHANGED notEnhance

\* background.js:153-160  the background script as loaded, the host not started
InitEnhance ==
  /\ fetches = <<>>
  /\ serverUp = FALSE

NextEnhance ==
  \/ \E what \in {"url", "data", "badData"} : FetchAiEnhance(what)
  \/ \E k \in 1..Len(fetches) :
       \/ \E result \in BOOLEAN, up \in BOOLEAN : EnsureReturned(k, result, up)
       \/ \E outcome \in {"ok", "http", "threw"} : FetchSettled(k, outcome)
       \/ \E up \in BOOLEAN : StopReturned(k, up)
  \/ ServerDies

-----------------------------------------------------------------------------
(* Properties of the cache *)

\* C1: right after every eviction pass (the one of get, the two of put) the
\* cache holds at most ENHANCED_PRELOAD_MAX_ENTRIES entries and at most
\* ENHANCED_PRELOAD_MAX_BYTES bytes, by the entries' sizes and by the running total.
CacheBoundedAfterEvict ==
  \A i \in 1..Len(evictSnaps) :
    /\ evictSnaps[i].count <= ENHANCED_PRELOAD_MAX_ENTRIES
    /\ evictSnaps[i].bytes <= ENHANCED_PRELOAD_MAX_BYTES
    /\ evictSnaps[i].total <= ENHANCED_PRELOAD_MAX_BYTES

\* A put left the cache over the byte budget and the eviction pass after it
\* brought it back under, keeping an entry.
CacheBoundedWitness ==
  /\ cacheRet.op = "put"
  /\ \E i \in 1..Len(evictLog) :
       SumBytes(evictLog[i].before) > ENHANCED_PRELOAD_MAX_BYTES
  /\ Len(enhancedPreloadCache) \in 1..ENHANCED_PRELOAD_MAX_ENTRIES

\* C2: a get never returns an entry older than the TTL: what it returns was
\* created at most ENHANCED_PRELOAD_TTL_MS before the read.
GetNeverReturnsExpired ==
  (cacheRet.op = "get" /\ cacheRet.found)
    => cacheRet.at - cacheRet.createdAt <= ENHANCED_PRELOAD_TTL_MS

\* A get asked for a key whose entry had outlived the TTL, and got none.
GetExpiredWitness ==
  cacheRet.op = "get" /\ cacheRet.wasExpired /\ ~cacheRet.found

StrictlyIncreasingUse(c) ==
  \A i \in 1..Len(c) - 1 : c[i].lastUsedAt < c[i + 1].lastUsedAt

\* C3: every removal of the capacity loop takes an entry whose lastUsedAt is the
\* smallest among the entries then in the cache; when the entries were last used
\* in the order they were inserted, that is the first-inserted one.
EvictsLeastRecentlyUsed ==
  \A s \in 1..Len(evictLog) :
    LET b == evictLog[s].before
        v == b[IndexOfKey(b, evictLog[s].key)]
    IN  /\ \A j \in 1..Len(b) : v.lastUsedAt <= b[j].lastUsedAt
        /\ StrictlyIncreasingUse(b) => evictLog[s].key = b[1].key

\* Seven keys inserted one after the other, maxEntries = 6: the first goes.
EvictsFirstOfSevenWitness ==
  /\ Len(evictLog) = 1
  /\ Len(evictLog[1].before) = ENHANCED_PRELOAD_MAX_ENTRIES + 1
  /\ StrictlyIncreasingUse(evictLog[1].before)
  /\ \A j \in 1..Len(evictLog[1].before) :
       evictLog[1].before[j].lastUsedAt = evictLog[1].before[j].createdAt
  /\ evictLog[1].key = 1
  /\ KeysOf(enhancedPreloadCache) = 2..(ENHANCED_PRELOAD_MAX_ENTRIES + 1)

-----------------------------------------------------------------------------
-----------------------------------------------------------------------------
(* Properties of the stream store *)

RECURSIVE Concat(_)
Concat(chunks) == IF chunks = <<>> THEN <<>> ELSE Head(chunks) \o Concat(Tail(chunks))

CeilDiv(a, b) == (a + b - 1) \div b

\* C4: a stored buffer of L bytes with chunk size C has ceil(L/C) chunks, chunk
\* i holds exactly the bytes [i*C, min(L, (i+1)*C)) of the buffer, the chunks
\* concatenated in index order are the L stored bytes (C = 4 and L = 10 give
\* three chunks of 4, 4 and 2 bytes), and a consumer that has read the whole
\* stream holds exactly those bytes.
ChunksReproduceBuffer ==
  /\ \A id \in DOMAIN aiStreamStore :
       LET e == aiStreamStore[id]
           L == e.byteLength
           n == Len(e.chunks)
       IN  /\ n = CeilDiv(L, chunkSize)
           /\ \A i \in 0..(n - 1) :
                e.chunks[i + 1] = SubSeq(Buf(L), i * chunkSize + 1, Min(L, (i + 1) * chunkSize))
           /\ Concat(e.chunks) = Buf(L)
           /\ (chunkSize = 4 /\ L = 10) => [i \in 1..n |-> Len(e.chunks[i])] = <<4, 4, 2>>
  /\ \A id \in DOMAIN drain :
       drain[id].st = "done" => drain[id].out = Buf(drain[id].total)

\* Ten bytes stored with chunk size four, read to the end by the consumer.
TenBytesInThreeChunksWitness ==
  /\ chunkSize = 4
  /\ 1 \in DOMAIN aiStreamStore
  /\ aiStreamStore[1].byteLength = 10
  /\ Len(aiStreamStore[1].chunks) = 3
  /\ drain[1].st = "done"
  /\ Len(drain[1].out) = 10

IsChunkResp(r) == r.type \in {"AI_STREAM_CHUNK", "AI_STREAM_CHUNK_B64"}

\* C5: a chunk request for an id that is not in the store (never stored, or
\* removed by a delete request or by the safety-TTL timer), or for an index
\* that is negative or at least the chunk count, is answered with an error and
\* no data; a chunk request answered with an error leaves the store as it was;
\* a delete request for an id that is not in the store is answered with
\* success and leaves the store as it was.
GetChunkErrorsAndDeleteIdempotent ==
  [][ LET r == streamResp' IN
      /\ (streamResp' # streamResp /\ IsChunkResp(r)) =>
           /\ ( \/ r.id \notin DOMAIN aiStreamStore
                \/ r.index < 0
                \/ r.index >= Len(aiStreamStore[r.id].chunks) )
                => (~r.ok /\ r.error # "" /\ r.chunk = <<>> /\ r.b64 = <<>>)
           /\ ~r.ok => UNCHANGED <<aiStreamStore, streamTimers>>
      /\ (streamResp' # streamResp /\ r.type = "AI_STREAM_DELETE"
            /\ r.id \notin DOMAIN aiStreamStore) =>
           (r.ok /\ UNCHANGED <<aiStreamStore, streamTimers>>)
    ]_vars

\* A chunk request for a stream that was stored and whose timer has removed it.
GetChunkAfterRemovalWitness ==
  /\ IsChunkResp(streamResp)
  /\ ~streamResp.ok
  /\ streamResp.error = "Unknown stream"
  /\ streamResp.index = 0
  /\ streamResp.id \in 1..nextStreamId
  /\ streamResp.id \notin DOMAIN aiStreamStore
  /\ streamResp.id \notin streamTimers

-----------------------------------------------------------------------------
(* Properties of starting and stopping the host *)

IsEnsureCall(task) == task.kind = "HOST_START" /\ task.called

\* C6: of the calls of ensureHostRunning that begin at the same instant with a
\* stale health cache and no start in flight, at most one sends the 'start'
\* command, and those that have returned have returned the same outcome.
SingleFlightStart ==
  \A a, b \in 1..Len(hostTasks) :
    ( /\ a < b
      /\ IsEnsureCall(hostTasks[a]) /\ IsEnsureCall(hostTasks[b])
      /\ hostTasks[a].callAt = hostTasks[b].callAt
      /\ hostTasks[a].stale /\ hostTasks[b].stale
      /\ hostTasks[a].alone /\ hostTasks[b].alone )
    => /\ ~(hostTasks[a].sentStart /\ hostTasks[b].sentStart)
       /\ (hostTasks[a].pc = "done" /\ hostTasks[b].pc = "done")
            => hostTasks[a].result = hostTasks[b].result

\* C7: of the HOST_START and HOST_STOP triggers that arrive at the same
\* instant, and so inside one debounce window whatever its length, at most one
\* is executed.
OneExecutionPerWindow ==
  \A a, b \in 1..Len(hostTasks) :
    (a < b /\ hostTasks[a].arrivedAt = hostTasks[b].arrivedAt)
    => ~(hostTasks[a].executed /\ hostTasks[b].executed)

-----------------------------------------------------------------------------
(* Properties of the failure cooldown *)

\* C8: a failed response that finds the failure count below four raises it by
\* one and leaves aiHostDownUntil alone; the one that finds it at four, the
\* fifth in a row, sets aiHostDownUntil to the time of the response plus the
\* cooldown window and the count to 0, and from then on the cooldown test is
\* true exactly while the clock is below aiHostDownUntil.
FifthFailureEngagesCooldown ==
  /\ cdLast.ev \in {"fail", "engaged"} =>
       (cdLast.ev = "engaged" <=> cdLast.countBefore = AI_FAIL_THRESHOLD - 1)
  /\ cdLast.ev = "fail" =>
       /\ aiHostFailCount = cdLast.countBefore + 1
       /\ aiHostDownUntil = cdLast.downBefore
  /\ cdLast.ev = "engaged" =>
       /\ aiHostDownUntil = cdLast.at + AI_FAIL_COOLDOWN_MS
       /\ aiHostFailCount = 0
       /\ now >= cdLast.at
       /\ IsCoolingDown(aiHostDownUntil, now) <=> now < cdLast.at + AI_FAIL_COOLDOWN_MS

\* Five failed responses in a row from a count of 0, and the clock inside the
\* cooldown window they opened.
FifthFailureWitness ==
  /\ cdLast.ev = "engaged"
  /\ cdLast.streak = 5
  /\ cdLast.countBefore = 4
  /\ cdLast.downBefore = 0
  /\ now > cdLast.at
  /\ now < aiHostDownUntil

\* C9: an enhancement attempt made while the clock is below aiHostDownUntil,
\* for the current item, for a preload candidate or from the context menu, is
\* rejected: no request goes out, and aiHostFailCount and aiHostDownUntil stay
\* as they were; a request goes out only when the clock is not below
\* aiHostDownUntil.
CooldownRejectsAttempts ==
  /\ cdLast.ev = "reject" =>
       /\ cdLast.at < cdLast.downBefore
       /\ aiHostFailCount = cdLast.countBefore
       /\ aiHostDownUntil = cdLast.downBefore
       /\ Awaiting(po, menu) <= cdLast.awaitingBefore
  /\ cdLast.ev = "send" =>
       /\ ~(cdLast.at < cdLast.downBefore)
       /\ Awaiting(po, menu) >= 1

\* A preload candidate rejected during a cooldown that five failures opened.
PreloadRejectedWitness ==
  /\ cdLast.ev = "reject"
  /\ cdLast.who = "preload"
  /\ cdLast.at < aiHostDownUntil
  /\ po.pc = "idle"
  /\ cooldownRetryTimer # 0

\* C10: a successful response leaves aiHostFailCount at 0, and a failed
\* response engages the cooldown only as the fifth failed response since the
\* last successful one (or since the last cooldown it engaged).
SuccessResetsFailureCount ==
  /\ cdLast.ev = "ok" => aiHostFailCount = 0
  /\ cdLast.ev = "engaged" => cdLast.streak = AI_FAIL_THRESHOLD
  /\ streak < AI_FAIL_THRESHOLD

\* Four failures and then a success, with no cooldown so far.
SuccessAfterFourWitness ==
  /\ cdLast.ev = "ok"
  /\ cdLast.countBefore = 4
  /\ cdLast.streak = 4
  /\ aiHostFailCount = 0
  /\ streak = 0
  /\ aiHostDownUntil = 0

-----------------------------------------------------------------------------
(* Properties of the selections on a page *)

NoDuplicates(seq) == \A a, b \in 1..Len(seq) : a # b => seq[a] # seq[b]

\* C11: whatever the current image and n >= 0, getNextCandidateImages returns
\* at most n images, returns no image twice, never returns the current image
\* and never returns an image already marked as upscaled.
CandidatesAreNewAndBounded ==
  pageRet.op = "next" =>
    /\ Len(pageRet.ret) <= pageRet.n
    /\ NoDuplicates(pageRet.ret)
    /\ \A j \in 1..Len(pageRet.ret) :
         /\ pageRet.ret[j] \in 1..Len(images)
         /\ pageRet.ret[j] # pageRet.cur
         /\ ~images[pageRet.ret[j]].muUpscaled

\* Two candidates were asked for and one returned, from above the current
\* image (so the nearest-by-distance path ran), while an upscaled panel stood
\* in the window at the height of the current image.
CandidatesPaddedWitness ==
  /\ pageRet.op = "next"
  /\ pageRet.n = 2
  /\ Len(pageRet.ret) = 1
  /\ images[pageRet.ret[1]].top < images[pageRet.cur].top
  /\ \E i \in 1..Len(images) :
       /\ i # pageRet.cur
       /\ images[i].muUpscaled
       /\ images[i].top = images[pageRet.cur].top

\* The claim's effective score of a tracked entry, area * 1/(1 + dx + 1.4 dy)
\* * siteBoost with dx, dy the distances of the image's centre from the
\* viewport's centre as fractions of the viewport's width and height: the
\* fraction (area * boost) / (1 + dx + 1.4 dy), both sides scaled by 20 and
\* by 20 * innerWidth * innerHeight.
EffNum(e) == e.area * (IF site = "comix" THEN 23 ELSE 20)

EffDen(e) ==
  LET img == images[e.img]
  IN  20 * innerWidth * innerHeight
        + 10 * Abs(2 * img.left + img.width - innerWidth) * innerHeight
        + 14 * Abs(2 * img.top + img.height - innerHeight) * innerWidth

HasLocator(img) == getBestImageUrl(img) \notin {"", "empty"}

Eligible(e) ==
  /\ e.area > 0
  /\ images[e.img].isConnected
  /\ images[e.img].src # ""
  /\ HasLocator(images[e.img])

\* The scenario: a 1000 x 1000 viewport tracking a centred image a of area
\* 40000 and an image b of area 50000 at dx = dy = 0.4.
ScenarioAB(a, b) ==
  /\ innerWidth = 1000 /\ innerHeight = 1000
  /\ Len(pageRet.before) = 2
  /\ \E k \in 1..2 : pageRet.before[k] = [img |-> a, area |-> 40000]
  /\ \E k \in 1..2 : pageRet.before[k] = [img |-> b, area |-> 50000]
  /\ Eligible([img |-> a, area |-> 40000])
  /\ Eligible([img |-> b, area |-> 50000])
  /\ 2 * images[a].left + images[a].width = 1000
  /\ 2 * images[a].top + images[a].height = 1000
  /\ Abs(2 * images[b].left + images[b].width - 1000) = 800
  /\ Abs(2 * images[b].top + images[b].height - 1000) = 800

\* C12: findBestVisibleImage returns the tracked image of positive score that
\* maximises area * 1/(1 + dx + 1.4 dy) * siteBoost, never an image that is
\* detached or has no usable source; in a 1000 x 1000 viewport a centred image
\* of area 40000 is returned rather than one of area 50000 at dx = dy = 0.4.
BestIsTrackedMaximum ==
  pageRet.op = "best" =>
    /\ \A j \in 1..Len(pageRet.ret) :
         images[pageRet.ret[j]].isConnected /\ HasLocator(images[pageRet.ret[j]])
    /\ (\E k \in 1..Len(pageRet.before) : Eligible(pageRet.before[k])) =>
         /\ Len(pageRet.ret) = 1
         /\ \E k \in 1..Len(pageRet.before) :
              /\ pageRet.before[k].img = pageRet.ret[1]
              /\ Eligible(pageRet.before[k])
              /\ \A m \in 1..Len(pageRet.before) :
                   Eligible(pageRet.before[m]) =>
                     ~FracGreater(EffNum(pageRet.before[m]), EffDen(pageRet.before[m]),
                                  EffNum(pageRet.before[k]), EffDen(pageRet.before[k]))
    /\ \A a, b \in 1..Len(images) : ScenarioAB(a, b) => pageRet.ret = <<a>>

\* The scenario happened, with the image of area 50000 tracked first.
ScenarioWitness ==
  /\ pageRet.op = "best"
  /\ \E a, b \in 1..Len(images) :
       /\ ScenarioAB(a, b)
       /\ pageRet.before[1].img = b
       /\ pageRet.ret = <<a>>

\* C14: aiHostDownUntil never decreases: every assignment by the failure path
\* (now + 20000) or the burst path (now + 8000) yields a value greater than or
\* equal to the one before.
DownUntilNeverDecreases == [][aiHostDownUntil' >= aiHostDownUntil]_vars

-----------------------------------------------------------------------------
(* Properties of the images' state *)

\* C13: under every interleaving of cycles, the cooldown retry, the Run command
\* and the context-menu enhance, each image has at most one backend
\* enhancement request in flight.
OneRequestPerItem == \A i \in 1..MaxItems : InFlight(calls, i) <= 1

CycleCalls == CallsWhere(calls, LAMBDA c : c.by = "cycle")

\* C15: at most one cycle is active at any time, and a cycle triggered while
\* another holds the busy flag returns without selecting an image, sending a
\* request or writing the preload cache (no call is added or moved, the cache
\* being written by a cycle's preload step only).
OneCycleAtATime ==
  /\ [](CycleCalls <= 1 /\ (busy <=> CycleCalls = 1))
  /\ [][itLast'.ev = "blocked" =>
          /\ busy /\ busy'
          /\ itLast'.img = 0
          /\ UNCHANGED <<calls, dataset>>]_vars

\* A cycle was triggered and sent away while another cycle's request was in
\* flight.
BlockedCycleWitness ==
  /\ itLast.ev = "blocked"
  /\ busy
  /\ \E c \in BagToSet(calls) : c.by = "cycle" /\ c.pc = "enhance"

\* C16: every failure on an image, the current one of a cycle or a preload
\* candidate, leaves the image with a failed-until time in the future.
PerItemFailureBacksOff == itLast.ev = "failed" => itLast.failUntil > itLast.at

\* what the handler that ran last showed to the user
Shown(text) == \E k \in 1..Len(cdLast.toasts) : cdLast.toasts[k] = text

\* C17: the failure text of a cycle is shown only when the cycle was started
\* by the user, never by a cycle the auto tick started.
FailureTextOnlyForManual == Shown("failed") => cdLast.manual

\* C18: while a cooldown lasts, that is from the assignment of aiHostDownUntil
\* to the moment that time has passed, the user has been shown at most one
\* cooldown notice, whatever number of cycles, preload steps and burst
\* triggers were turned away meanwhile.
OneNoticePerCooldown == now < aiHostDownUntil => cdLast.notices <= 1

\* a cycle is turned away in a cooldown whose notice was shown before
SilentRejectionWitness ==
  /\ now < aiHostDownUntil
  /\ cdLast.ev = "reject"
  /\ cdLast.who \in {"run", "current", "preload"}
  /\ cdLast.notices = 1
  /\ ~Shown("notice")

\* C19: a FETCH_AI_ENHANCE message causes at most two requests to the host.
\* The second is made only after the first could not reach the host, and
\* after one stopNativeHost and one more ensureHostRunning; whenever the first
\* request could not reach the host the second is made.  An error of the
\* second request, and an error of the first that is no communication error,
\* is what the caller is answered with.
RetriesOnce ==
  \A k \in 1..Len(fetches) :
    LET h == fetches[k] IN
    /\ h.requests <= 2 /\ h.stops <= 1 /\ h.ensures <= 2
    /\ h.requests = 2 =>
         Len(h.thrown) >= 1 /\ h.thrown[1] = FailedToFetch /\ h.stops = 1 /\ h.ensures = 2
    /\ h.pc = "done" /\ Len(h.thrown) >= 1 =>
         IF h.thrown[1] = FailedToFetch
         THEN h.requests = 2 /\ (Len(h.thrown) = 2 => h.reply = h.thrown[2].msg)
         ELSE /\ h.requests <= 1 /\ h.stops = 0 /\ Len(h.thrown) = 1
              /\ h.reply = h.thrown[1].msg
    /\ Len(h.thrown) = 2 => h.pc = "done"

\* the request was made twice and failed twice
SecondFailureWitness ==
  \E k \in 1..Len(fetches) :
    /\ fetches[k].pc = "done"
    /\ fetches[k].requests = 2
    /\ fetches[k].thrown = <<FailedToFetch, FailedToFetch>>
    /\ fetches[k].reply = "Failed to fetch"

\* C21: an entry of the stream store has its safety-TTL timer pending for as
\* long as it is in the store, so none outlives the timer; and every entry
\* is removed in the end, whether the consumer reads it to the end, stops
\* in the middle, fails or never reads.
EveryStreamRemoved ==
  /\ [](DOMAIN aiStreamStore \subseteq streamTimers)
  /\ \A id \in 1..MaxStreams :
       (id \in DOMAIN aiStreamStore) ~> (id \notin DOMAIN aiStreamStore)

\* the timer has removed an entry that its consumer stopped reading halfway
RemovedByTimerWitness ==
  \E id \in DOMAIN drain :
    /\ id \notin DOMAIN aiStreamStore
    /\ id \notin streamTimers
    /\ id \notin deleteSent
    /\ drain[id].st = "reading"
    /\ 0 < drain[id].i /\ drain[id].i < drain[id].chunkCount

StopLeavesNoFreshSignal ==
  [][\A t \in 1..Len(hostTasks) :
       (hostTasks[t].pc = "reping" /\ hostTasks'[t].pc = "tray_stop")
         => ~PingCached(now)']_vars

\* the calls of ensureHostRunning that sent 'start'
StartSenders == {t \in 1..Len(hostTasks) : hostTasks[t].sentStart}

\* C24, as first stated: a call that finds no fresh cached health signal
\* sends a start command.
StaleCallSendsStart ==
  \A t \in 1..Len(hostTasks) :
    hostTasks[t].pc = "done" /\ hostTasks[t].stale => hostTasks[t].sentStart

\* C24: every call of ensureHostRunning returns.  With a fresh cached
\* health signal, or when its first probe passes, it returns success and has
\* sent no start command; otherwise it sends one start command and probes at
\* most 10 times, returns success at the first probe that passes, and failure
\* only when the 10 attempts are used up.
EnsureRunningTerminates ==
  /\ [](/\ startCmds = Cardinality(StartSenders)
        /\ \A t \in 1..Len(hostTasks) :
             LET k == hostTasks[t] IN
             /\ k.i <= HOST_POLL_ATTEMPTS
             /\ k.pc = "done" /\ ~k.stale => k.result = "true" /\ ~k.sentStart
             /\ k.pc = "done" /\ k.result = "false" =>
                  k.sentStart /\ k.i = HOST_POLL_ATTEMPTS
             /\ k.pc \in {"start", "poll", "delay"} => k.sentStart)
  /\ [][\A t \in 1..Len(hostTasks) :
         hostTasks[t].pc \in {"ping0", "poll"} /\ hostTasks'[t].pc # hostTasks[t].pc
         /\ HealthOk
           => /\ hostTasks'[t].pc = "done" /\ hostTasks'[t].result = "true"
              /\ hostTasks'[t].sentStart = hostTasks[t].sentStart]_vars
  /\ \A t \in 1..MaxHostTasks :
       (Len(hostTasks) >= t) ~> (Len(hostTasks) >= t /\ hostTasks[t].pc = "done")

\* a call has used up its attempts and returned failure, and a later one
\* with a stale signal has returned success at its first probe, sending
\* nothing
EnsureOutcomesWitness ==
  \E t, u \in 1..Len(hostTasks) :
    /\ hostTasks[t].pc = "done" /\ hostTasks[t].result = "false"
    /\ hostTasks[u].pc = "done" /\ hostTasks[u].result = "true"
    /\ hostTasks[u].stale /\ ~hostTasks[u].sentStart

RetryComesAfterCooldown ==
  /\ [][cdLast' # cdLast =>
          /\ cdLast'.armed = 1 =>
               cooldownRetryTimer' = Max(now, aiHostDownUntil') + COOLDOWN_RETRY_SLACK_MS
          /\ cdLast'.fired = 1 =>
               /\ cooldownRetryTimer # 0 /\ now >= cooldownRetryTimer
               /\ IsCoolingDown(aiHostDownUntil, now) =>
                    cdLast'.armed = 1 /\ cooldownRetryTimer' > aiHostDownUntil]_vars
  /\ (cdLast.asked >= 1) ~> (cdLast.fired = 1 /\ cdLast.at >= cdLast.downBefore)

\* the timer has fired during a cooldown that began after the timer was set,
\* and has been set again
RetryRearmedWitness ==
  /\ cdLast.fired = 1 /\ cdLast.armed = 1
  /\ cdLast.ev = "reject"
  /\ cdLast.at < aiHostDownUntil
  /\ cooldownRetryTimer = aiHostDownUntil + COOLDOWN_RETRY_SLACK_MS

\* the burst count after one more counted attempt at time t
BurstCountedAt(t) ==
  (IF aiBurstLastAt = 0 \/ t - aiBurstLastAt > AI_BURST_WINDOW_MS THEN 0 ELSE aiBurstCount) + 1

\* C27: the end of every enhancement attempt of an auto cycle, successful or
\* not, counts for the burst limit: the count restarts after the idle window
\* and goes up by one; at the limit it goes back to 0, a cooldown of 8 s
\* begins and the retry timer is set.
BurstCountsEveryAttempt ==
  [][(/\ cdLast' # cdLast
      /\ po.pc \in {"enhance", "render"} /\ po'.pc \notin {"enhance", "render"}
      /\ ~po.manual
      /\ ~(cdLast'.who = "current" /\ cdLast'.ev = "reject"))
       => /\ aiBurstLastAt' = now
          /\ aiBurstCount' = (IF BurstCountedAt(now) >= AI_BURST_LIMIT THEN 0
                              ELSE BurstCountedAt(now))
          /\ BurstCountedAt(now) >= AI_BURST_LIMIT =>
               aiHostDownUntil' = now + AI_BURST_COOLDOWN_MS /\ cooldownRetryTimer' # 0]_vars

\* C28: no step of a cycle that was started with showStatus, by RUN_ONCE or
\* by the retry timer, touches the burst count or its time stamp, none ends
\* in a burst cooldown, and such a step changes aiHostDownUntil only by the
\* failure cooldown.
ManualCycleNotBurstLimited ==
  [][(cdLast' # cdLast /\ cdLast'.manual)
       => /\ aiBurstCount' = aiBurstCount /\ aiBurstLastAt' = aiBurstLastAt
          /\ cdLast'.ev # "burst"
          /\ aiHostDownUntil' # aiHostDownUntil => cdLast'.ev = "engaged"]_vars

\* a manual cycle has enhanced its image with the burst count one below the
\* limit and the window still open
ManualAtBurstLimitWitness ==
  /\ cdLast.manual /\ Shown("label")
  /\ aiBurstCount = AI_BURST_LIMIT - 1
  /\ now - aiBurstLastAt <= AI_BURST_WINDOW_MS
  /\ ~IsCoolingDown(aiHostDownUntil, now)

FailureSetsFailedUntil ==
  [][(/\ itLast' # itLast
      /\ itLast'.ev = "failed" /\ itLast'.by \in {"cycle", "menu"})
        => /\ ~dataset'[itLast'.img].muUpscaled
           /\ dataset'[itLast'.img].muFailUntil =
                now + (IF itLast'.decode THEN FAIL_BACKOFF_DECODE_MS
                                         ELSE FAIL_BACKOFF_MS)]_vars

\* the same of the failures that come once the request has begun, which the
\* catch of processImageElement handles
CaughtFailureSetsFailedUntil ==
  [][(/\ itLast' # itLast
      /\ itLast'.ev = "failed" /\ itLast'.by \in {"cycle", "menu"}
      /\ calls' # calls)
        => /\ ~dataset'[itLast'.img].muUpscaled
           /\ dataset'[itLast'.img].muFailUntil =
                now + (IF itLast'.decode THEN FAIL_BACKOFF_DECODE_MS
                                         ELSE FAIL_BACKOFF_MS)]_vars

\* C31: no preload candidate is requested while the cooldown lasts, and when
\* the preload loop comes to a candidate during a cooldown the cycle ends
\* there: the candidate is rejected, a retry is scheduled, busy is cleared
\* and no request of the cycle is under way.
PreloadStopsAtCooldown ==
  [][/\ (po'.pc = "preload" /\ po' # po)
          => ~(now < aiHostDownUntil) /\ ~(now < aiHostDownUntil')
     /\ (po.pc = "preload" /\ po' # po /\ po.left > 0 /\ now < aiHostDownUntil)
          => /\ po' = Idle /\ ~busy'
             /\ cdLast'.ev = "reject" /\ cdLast'.who = "preload"
             /\ cdLast'.asked = 1
             /\ cooldownRetryTimer' # 0
             /\ cooldownRetryPreload'
             /\ Awaiting(po', menu') = Awaiting(po, menu) - 1]_vars

\* the loop has stopped at a candidate, with candidates left, in a cooldown
\* that began while the candidate before it was being fetched, and has set
\* the retry timer
PreloadStoppedWitness ==
  /\ cdLast.ev = "reject" /\ cdLast.who = "preload"
  /\ cdLast.at = now /\ now < aiHostDownUntil
  /\ cdLast.awaitingBefore >= 1
  /\ cdLast.asked = 1 /\ cdLast.armed = 1
  /\ po = Idle /\ ~busy
  /\ cooldownRetryTimer = aiHostDownUntil + COOLDOWN_RETRY_SLACK_MS

\* C32: the preload loop leaves every candidate as it was: what the image
\* shows and whether it is marked upscaled do not change at a step of the
\* loop.
PreloadLeavesDisplayAlone ==
  [][(itLast' # itLast /\ itLast'.by = "preload")
       => \A i \in 1..MaxItems :
            /\ dataset'[i].muUpscaled = dataset[i].muUpscaled
            /\ dataset'[i].muOriginalSrc = dataset[i].muOriginalSrc]_vars

\* C37: enhancedPreloadTotalBytes is the sum of byteLength over the entries in
\* the cache, and is not negative, whatever puts, replacements, TTL removals
\* and LRU removals have run.
TotalBytesIsSumOfEntries ==
  /\ enhancedPreloadTotalBytes = SumBytes(enhancedPreloadCache)
  /\ enhancedPreloadTotalBytes >= 0

\* a put has replaced the entry of its key, and the capacity loop has removed
\* an entry in the same operation
ReplacedAndEvictedWitness ==
  /\ cacheRet.op = "put" /\ cacheRet.found
  /\ evictLog # <<>>
  /\ enhancedPreloadCache # <<>>

\* C33: applyEnhancedCacheIfReady changes what the image shows, and marks it,
\* only when the cache holds an entry not older than the TTL whose blob was
\* made for the image's source and the scale, quality and format now set,
\* and force is given or the image is near the viewport; a call that does
\* not meet this leaves the image's source, overlay and mark as they are.
PreloadedAppliedOnlyForCurrentKey ==
  /\ [](ap.kind = "preloaded" /\ ap.pc # "idle"
          => /\ ap.made = ap.want
             /\ ap.fresh
             /\ ap.force \/ ap.near)
  /\ [][(ap.pc = "idle" /\ ap'.pc = "idle" /\ apOps' # apOps)
          => /\ el'.src = el.src /\ el'.overlay = el.overlay
             /\ el'.muUpscaled = el.muUpscaled]_vars
  /\ [][(ap.pc = "idle" /\ ap'.kind = "preloaded")
          => /\ ap'.want = <<el.url, settings.scale, settings.quality, "webp">>
             /\ \E i \in 1..Len(enhancedPreloadCache) :
                  /\ now - enhancedPreloadCache[i].createdAt <= ENHANCED_PRELOAD_TTL_MS
                  /\ made[enhancedPreloadCache[i].key] = ap'.want]_vars

\* a preloaded blob was applied and the image marked,
\* while the cache held a blob made under other parameters as well
PreloadedAppliedWitness ==
  /\ apLast.kind = "preloaded" /\ apLast.res = "applied"
  /\ el.muUpscaled /\ el.src = "blob"
  /\ Len(enhancedPreloadCache) = 2

\* C34: every call of applyEnhancedCacheIfReady has called prefetchUrl and
\* touchPagePreload for the image, whether or not it went on to swap.
EveryApplyCallHintsPageLoad == apLast.kind = "preloaded" => apLast.hinted

\* C38: an image that is not marked upscaled and on which no handler is
\* putting an enhanced image shows its original: its src is the page's own
\* and no canvas lies over it.
UnmarkedImageShowsOriginal ==
  (~el.muUpscaled /\ ap.pc = "idle") => (el.src = "orig" /\ ~el.overlay)

IsPrefix(p, q) == Len(p) <= Len(q) /\ SubSeq(q, 1, Len(p)) = p

\* the strategies of processImageElement in their order: the direct swap, the
\* data URL, the canvas overlay, the PNG from the backend, the overlay again
StrategyOrder == <<"a", "b", "c", "png", "c">>

\* C35: processImageElement tries the direct swap, the data URL and the canvas
\* overlay in this order, each only after the one before has failed, with
\* the original restored before the data URL is made; it asks the backend
\* for a PNG at most once, and only after the overlay failed to decode.
StrategiesInOrder ==
  /\ [](/\ IsPrefix(ap.tried, StrategyOrder)
        /\ IsPrefix(apLast.tried, StrategyOrder)
        /\ ap.pc = "encode" => (el.src = "orig" /\ ~el.overlay))
  /\ [][(ap.kind = "process" /\ Len(ap'.tried) > Len(ap.tried))
          => /\ ap.pc \in {"waitBlob", "encode", "waitData", "overlay", "pngFetch"}
             /\ Len(ap'.tried) = Len(ap.tried) + 1
             /\ ap'.pc = "encode" => (ap.pc = "waitBlob" /\ ap'.why = "load")
             /\ ap'.pc = "overlay" => ap'.why \in {"load", "encode"}
             /\ ap'.pc = "pngFetch" => (ap.pc = "overlay" /\ ap'.why = "decode")
             /\ ap'.pc = "overlayPng" => ap.pc = "pngFetch"]_vars

\* an image was marked after every strategy had its turn: the swap and the
\* data URL failed, the overlay failed to decode, and the PNG was drawn
AllStrategiesWitness ==
  /\ apLast.kind = "process" /\ apLast.res = "applied"
  /\ apLast.tried = StrategyOrder
  /\ el.muUpscaled /\ el.overlay

DeleteOnlyAfterAllChunks ==
  /\ [](\A id \in deleteSent :
          /\ drain[id].i = drain[id].chunkCount
          /\ Len(drain[id].out) = drain[id].total)
  /\ [](\A id \in DOMAIN drain :
          (drain[id].st \in {"hostError", "invalid"}
             \/ (drain[id].st = "failed" /\ drain[id].i < drain[id].chunkCount))
            => id \notin deleteSent)
  /\ [][\A id \in DOMAIN drain :
          /\ id \in deleteSent => drain'[id] = drain[id]
          /\ (id \notin deleteSent' /\ id \in DOMAIN aiStreamStore
                /\ id \notin DOMAIN aiStreamStore')
               => (id \in streamTimers /\ id \notin streamTimers')]_vars

\* a chunk request has failed in the middle of a stream: no delete was sent
ChunkFailedNoDeleteWitness ==
  \E id \in DOMAIN drain :
    /\ drain[id].st = "failed"
    /\ 0 < drain[id].i /\ drain[id].i < drain[id].chunkCount
    /\ id \notin deleteSent

\* C20: once SETTINGS_UPDATED has been handled with enhancement disabled or
\* the site denied, and until it is allowed again, HOST_STOP has been sent
\* and no image is marked as upscaled, the images of calls that were at work
\* when the message came included.
DisabledMeansNothingDone ==
  ~enabled => stopAsked /\ \A i \in 1..MaxItems : ~dataset[i].muUpscaled

-----------------------------------------------------------------------------
(* Initial states and specifications *)

\* The state after construction.
Init == InitCache /\ InitStream /\ InitHost /\ InitCooldown /\ InitPage /\ InitItems /\ InitEnhance /\ InitApply /\ InitListener /\ InitAwait

\* The cache empty or full, everything else as constructed.
InitCacheFilled == InitCacheAny /\ InitStream /\ InitHost /\ InitCooldown /\ InitPage /\ InitItems /\ InitEnhance /\ InitApply /\ InitListener /\ InitAwait

\* Any chunk size up to MaxChunkSize, everything else as constructed.
InitChunks == InitCache /\ InitHost /\ InitCooldown /\ InitPage /\ InitItems /\ InitEnhance /\ InitApply /\ InitListener /\ InitAwait /\ \E size \in 1..MaxChunkSize : InitStreamWith(size)

SpecCache == InitCacheFilled /\ [][NextCache]_vars

SpecChunks == InitChunks /\ [][NextChunks]_vars

SpecStream == InitChunks /\ [][NextStream]_vars

SpecStreamLife == InitChunks /\ [][NextStreamLife]_vars /\ FairStreamTimers

SpecHost == Init /\ [][NextHost]_vars

SpecEnsure == Init /\ [][NextEnsure]_vars /\ FairHostTasks

SpecCooldown == Init /\ [][NextCooldown]_vars

SpecPreload == Init /\ [][NextPreload]_vars

SpecApply == Init /\ [][NextApply]_vars

InitCandidates == InitCache /\ InitStream /\ InitHost /\ InitCooldown /\ InitPanels /\ InitItems /\ InitEnhance /\ InitApply /\ InitListener /\ InitAwait

SpecCandidates == InitCandidates /\ [][NextPanels]_vars

InitCurrent == InitCache /\ InitStream /\ InitHost /\ InitCooldown /\ InitView /\ InitItems /\ InitEnhance /\ InitApply /\ InitListener /\ InitAwait

SpecCurrent == InitCurrent /\ [][NextView]_vars

SpecItems == Init /\ [][NextItems]_vars

SpecBurst == Init /\ [][NextBurst]_vars

SpecNotices == Init /\ [][NextNotices]_vars

SpecRetry == Init /\ [][NextRetry]_vars /\ FairRetryTimer

SpecCycles == Init /\ [][NextCycles]_vars

SpecEnhance == Init /\ [][NextEnhance]_vars

SpecListener == Init /\ [][NextListener]_vars /\ FairListener

SpecAwait == Init /\ [][NextAwait]_vars /\ FairAwait

====
